---- MODULE Spec2Model ----
(***************************************************************************)
(* A model of the finzen personal-finance server: the Express route        *)
(* handlers over the Mongoose collections Account, Category, Transaction,  *)
(* Allocation, Borrowing and BorrowingTransaction.                          *)
(*                                                                         *)
(* Spec runs the handlers one request at a time: one action is one whole   *)
(* handler, from the validator to the response.  Amounts are whole         *)
(* currency units there (a JavaScript number holds them exactly).          *)
(* DoubleSpec runs the transaction and borrowing handlers on amounts with  *)
(* a fraction, which a JavaScript number holds as a binary64 value.        *)
(* ConcSpec runs two requests of the transaction routes at once, each      *)
(* handler one step per awaited database call.                             *)
(* TwoSpec runs the handlers, with the update and delete routes of         *)
(* categories and allocations, for the requests of two users.              *)
(* AuthSpec runs the routes of /api/auth that issue, check and replace     *)
(* the JSON Web Tokens and the password reset tokens, on a clock.          *)
(* MarkPaidSpec runs the mark-paid route on months marked before, and      *)
(* PaySpec runs two pay requests at once, one step per awaited call.       *)
(***************************************************************************)
EXTENDS Integers, Sequences, FiniteSets, TLC

\* ------------------------------------------------------------------ bounds
\* the largest amount of a request, and the largest balance the requests build up
MaxAmount == 2
MaxBalance == 2
\* the payments recorded in one behaviour
MaxBorrowingTransactions == 2
\* the _ids each collection issues in one behaviour, in this order
AccountIdPool == {1, 2}
CategoryIdPool == {1, 2}
TransactionIdPool == {1, 2}
AllocationIdPool == {1}
BorrowingIdPool == {1}

Users == {"u1"}
\* A behaviour runs the account routes and the routes of one ledger: transactions
\* (Category, Transaction), allocations (Category, Allocation and the Transactions
\* of mark-paid) or borrowings (Borrowing, BorrowingTransaction).  The ledgers meet
\* in the Account collection only, and the account routes alone reach every state
\* of it (PUT /api/accounts/:id sets any balance, DELETE removes the account).
\* A Transaction of mark-paid is a Transaction as POST /api/transactions makes
\* it, and the transactions ledger is where Transactions are deleted.
Ledgers == {"transactions", "allocations", "borrowings"}
Months == {"2025-01", "2025-02"}
\* amount 0 is the input the validators reject (isFloat({ min: 0.01 }))
AmountInputs == 0..MaxAmount
\* balance -1 is the input the validators reject (isFloat({ min: 0 }))
BalanceInputs == (0 - 1)..MaxBalance
TransactionTypes == {"income", "expense"}
BorrowingTypes == {"borrow", "lend"}
AllocationTypes == {"expense", "income", "savings"}

\* ------------------------------------------------------------------- state
VARIABLES
  accounts,               \* _id -> [userId, balance]
  categories,             \* _id -> [userId, type]
  transactions,           \* _id -> [userId, accountId, categoryId, amount, type]
  allocations,            \* _id -> [userId, amount, type, monthlyPayments]
  borrowings,             \* _id -> [userId, type, totalAmount, paidAmount,
                          \*         remainingAmount, status, initialAccountId]
  borrowingTransactions,  \* _id -> [borrowingId, userId, amount, accountId, type]
  nextId,                 \* the next fresh _id of each collection
  resp,                   \* the last response: [status, kind]
  history,                \* what the steps did to each borrowing and transaction
  ledger,                 \* the ledger whose routes the behaviour exercises
  numbers,                \* the amounts of the behaviour: "integer" or "double"
  requests,               \* the requests in flight: slot -> its handler's locals
  users,                  \* _id -> [email, password, passwordChangedAt,
                          \*         passwordResetToken, passwordResetExpires]
  clock,                  \* Date.now(), in milliseconds
  nodeEnv                 \* process.env.NODE_ENV

auth == <<users, clock, nodeEnv>>

db == <<accounts, categories, transactions, allocations, borrowings,
        borrowingTransactions>>
vars == <<accounts, categories, transactions, allocations, borrowings,
          borrowingTransactions, nextId, resp, history, ledger, numbers, auth, requests>>

\* no initialAccountId (the field is undefined)
NoAccount == 0

\* the routes of the ledgers leave the User collection alone
NoAuth ==
  /\ users = <<>>
  /\ clock = 0
  /\ nodeEnv = "production"

\* the lookup by _id alone, whoever owns the document
FindOneMutant(coll, id, u) == id \in DOMAIN coll

\* ------------------------------------------------------- persistence layer
\* Model.findOne({ _id: id, userId: u }) finds a document
FindOne(coll, id, u) == id \in DOMAIN coll /\ coll[id].userId = u

\* Model.findById(id) finds a document
FindById(coll, id) == id \in DOMAIN coll

\* doc.save() of a new document
Insert(coll, id, doc) == [i \in DOMAIN coll \cup {id} |-> IF i = id THEN doc ELSE coll[i]]

\* doc.deleteOne()
Remove(coll, id) == [i \in DOMAIN coll \ {id} |-> coll[i]]

\* a deleteMany that removes nothing
DeleteManyMutant(coll, matched) == coll

\* Model.deleteMany(filter), matched the _ids of the documents the filter matches
DeleteMany(coll, matched) == [i \in DOMAIN coll \ matched |-> coll[i]]

\* res.status(status).json(...): the HTTP status and the kind of the outcome
Response(status, kind) == [status |-> status, kind |-> kind]

\* ------------------------------------------------------------------- Number
\* A JavaScript number is an IEEE 754 binary64 value.  Whole numbers within the
\* bounds are held exactly, and their sums and differences are exact: a
\* behaviour with numbers = "integer" computes on them with + and -.  A
\* behaviour with numbers = "double" holds every number as a sign and a
\* magnitude in units of 2^-56, the magnitude as two limbs hi * 2^29 + lo; a
\* magnitude has at most 53 significant bits.  The unit is the last place of the
\* values from 2^-4 up to 2^-3, so value 0 and every value from 2^-4 up to the
\* bounds (below 2^2) is held exactly, and so is every difference of two of them.
Limb == 2^29
Double(neg, hi, lo) == [neg |-> neg, hi |-> hi, lo |-> lo]
DoubleZero == Double(FALSE, 0, 0)

\* the number of bits of n, for 0 <= n < 2^30
BitLength(n) == CHOOSE k \in 0..30 : n < 2^k /\ (k = 0 \/ n >= 2^(k - 1))

\* Round to nearest, ties to even: the magnitude hi * 2^29 + lo + fraction, where
\* fraction (of a unit) is "zero", "below" a half, a "half" or "above" a half, as
\* the binary64 magnitude next to it
RoundToEven(hi, lo, fraction) ==
  LET bits == IF hi = 0 THEN 0 ELSE 29 + BitLength(hi)
      drop == IF bits > 53 THEN bits - 53 ELSE 0
      q == 2^drop
      rem == lo % q
      odd == (lo \div q) % 2 = 1
      up == IF drop = 0
              THEN fraction = "above" \/ (fraction = "half" /\ odd)
              ELSE \/ 2 * rem > q
                   \/ 2 * rem = q /\ (fraction # "zero" \/ odd)
      sum == (lo - rem) + (IF up THEN q ELSE 0)
  IN  IF sum = Limb THEN [hi |-> hi + 1, lo |-> 0] ELSE [hi |-> hi, lo |-> sum]

\* the Number a request body holds for the decimal t/10 (0.1, 0.2, ...):
\* t * 2^56 / 10 by long division, rounded to the nearest binary64 value
ParseTenths(t) ==
  LET q1 == (t * 2^27) \div 10
      r1 == (t * 2^27) % 10
      q2 == (r1 * 2^27) \div 10
      r2 == (r1 * 2^27) % 10
      q3 == (r2 * 4) \div 10
      r3 == (r2 * 4) % 10
      fraction == IF r3 = 0 THEN "zero"
                  ELSE IF 2 * r3 < 10 THEN "below"
                  ELSE IF 2 * r3 = 10 THEN "half" ELSE "above"
      m == RoundToEven(q1, q2 * 4 + q3, fraction)
  IN  Double(FALSE, m.hi, m.lo)

\* the whole number n as a binary64 value
FromInteger(n) == IF n < 0 THEN Double(TRUE, (0 - n) * 2^27, 0)
                           ELSE Double(FALSE, n * 2^27, 0)

MagnitudeLess(x, y) == x.hi < y.hi \/ (x.hi = y.hi /\ x.lo < y.lo)

\* x + y of two binary64 values: the exact sum, rounded
DoubleAdd(x, y) ==
  IF x.neg = y.neg
    THEN LET lo == x.lo + y.lo
             m == RoundToEven(x.hi + y.hi + lo \div Limb, lo % Limb, "zero")
         IN  Double(x.neg /\ (m.hi > 0 \/ m.lo > 0), m.hi, m.lo)
    ELSE IF x.hi = y.hi /\ x.lo = y.lo
    THEN DoubleZero
    ELSE LET big == IF MagnitudeLess(x, y) THEN y ELSE x
             small == IF MagnitudeLess(x, y) THEN x ELSE y
             borrow == IF big.lo < small.lo THEN 1 ELSE 0
             m == RoundToEven(big.hi - small.hi - borrow,
                              big.lo - small.lo + borrow * Limb, "zero")
         IN  Double(big.neg, m.hi, m.lo)

DoubleNegate(x) == IF x = DoubleZero THEN x ELSE Double(~x.neg, x.hi, x.lo)

DoubleLess(x, y) ==
  IF x.neg # y.neg THEN x.neg
  ELSE IF x.neg THEN MagnitudeLess(y, x) ELSE MagnitudeLess(x, y)

\* the JavaScript operators on the numbers of the behaviour
Zero == IF numbers = "integer" THEN 0 ELSE DoubleZero
Plus(x, y) == IF numbers = "integer" THEN x + y ELSE DoubleAdd(x, y)
Negate(x) == IF numbers = "integer" THEN 0 - x ELSE DoubleNegate(x)
Minus(x, y) == IF numbers = "integer" THEN x - y ELSE DoubleAdd(x, DoubleNegate(y))
Less(x, y) == IF numbers = "integer" THEN x < y ELSE DoubleLess(x, y)

\* isFloat({ min: 0.01 }) on an amount: the whole amounts from 1 on and the
\* fractions from 0.1 on pass, 0 does not
AmountValid(amount) == Less(Zero, amount)

\* the balances a behaviour builds up stay within MaxBalance
WithinBound(balance) ==
  IF numbers = "integer" THEN balance <= MaxBalance
                         ELSE ~DoubleLess(FromInteger(MaxBalance), balance)

\* ------------------------------------------------------------------ Account
\* the schema validator of Account.balance, run by account.save()
AccountValidMutant(balance) == TRUE
AccountValid(balance) == ~Less(balance, Zero)

\* account.save() of a loaded account whose balance was reassigned: the new
\* collection, or the old one when validation throws
SaveBalance(id, balance) ==
  IF AccountValid(balance)
    THEN [accounts EXCEPT ![id].balance = balance]
    ELSE accounts

\* POST /api/accounts
CreateAccount(u, balance) ==
  /\ UNCHANGED <<ledger, numbers, auth, requests>>
  /\ IF Less(balance, Zero)
       THEN /\ resp' = Response(400, "Validation")
            /\ UNCHANGED <<accounts, nextId>>
       ELSE /\ nextId.account \in AccountIdPool
            /\ accounts' = Insert(accounts, nextId.account,
                                  [userId |-> u, balance |-> balance])
            /\ nextId' = [nextId EXCEPT !.account = @ + 1]
            /\ resp' = Response(201, "OK")
  /\ UNCHANGED <<categories, transactions, allocations, borrowings,
                 borrowingTransactions>>

\* PUT /api/accounts/:id
UpdateAccount(u, id, hasBalance, balance) ==
  /\ UNCHANGED <<ledger, numbers, auth, requests>>
  /\ IF hasBalance /\ Less(balance, Zero)
       THEN /\ resp' = Response(400, "Validation")
            /\ UNCHANGED accounts
       ELSE IF ~FindOne(accounts, id, u)
       THEN /\ resp' = Response(404, "NotFound")
            /\ UNCHANGED accounts
       ELSE /\ accounts' = IF hasBalance THEN SaveBalance(id, balance) ELSE accounts
            /\ resp' = Response(200, "OK")
  /\ UNCHANGED <<categories, transactions, allocations, borrowings,
                 borrowingTransactions, nextId>>

\* DELETE /api/accounts/:id
DeleteAccount(u, id) ==
  /\ UNCHANGED <<ledger, numbers, auth, requests>>
  /\ IF ~FindOne(accounts, id, u)
       THEN /\ resp' = Response(404, "NotFound")
            /\ UNCHANGED <<accounts, transactions>>
       ELSE /\ transactions' =
                 DeleteMany(transactions,
                            {t \in DOMAIN transactions :
                               /\ transactions[t].accountId = id
                               /\ transactions[t].userId = u})
            /\ accounts' = Remove(accounts, id)
            /\ resp' = Response(200, "OK")
  /\ UNCHANGED <<categories, allocations, borrowings, borrowingTransactions,
                 nextId>>

\* ----------------------------------------------------------------- Category
\* POST /api/categories
CreateCategory(u, type) ==
  /\ ledger \in {"transactions", "allocations"}
  /\ UNCHANGED <<ledger, numbers, auth, requests>>
  /\ nextId.category \in CategoryIdPool
  /\ categories' = Insert(categories, nextId.category, [userId |-> u, type |-> type])
  /\ nextId' = [nextId EXCEPT !.category = @ + 1]
  /\ resp' = Response(201, "OK")
  /\ UNCHANGED <<accounts, transactions, allocations, borrowings,
                 borrowingTransactions>>

\* PUT /api/categories/:id
UpdateCategory(u, id, hasType, type) ==
  /\ ledger \in {"transactions", "allocations"}
  /\ UNCHANGED <<ledger, numbers, auth, requests>>
  /\ IF ~FindOne(categories, id, u)
       THEN /\ resp' = Response(404, "NotFound")
            /\ UNCHANGED categories
       ELSE /\ categories' = IF hasType THEN [categories EXCEPT ![id].type = type]
                                        ELSE categories
            /\ resp' = Response(200, "OK")
  /\ UNCHANGED <<accounts, transactions, allocations, borrowings,
                 borrowingTransactions, nextId>>

\* DELETE /api/categories/:id
DeleteCategory(u, id) ==
  /\ ledger \in {"transactions", "allocations"}
  /\ UNCHANGED <<ledger, numbers, auth, requests>>
  /\ IF ~FindOne(categories, id, u)
       THEN /\ resp' = Response(404, "NotFound")
            /\ UNCHANGED categories
       ELSE /\ categories' = Remove(categories, id)
            /\ resp' = Response(200, "OK")
  /\ UNCHANGED <<accounts, transactions, allocations, borrowings,
                 borrowingTransactions, nextId>>

\* -------------------------------------------------------------- Transaction
\* the change of an income applied to an expense too
AmountChangeMutant(type, amount) == amount

\* const amountChange = type === 'income' ? amount : -amount
AmountChange(type, amount) == IF type = "income" THEN amount ELSE Negate(amount)

\* const amountChange = transaction.type === 'income' ? -transaction.amount : transaction.amount
ReverseAmountChange(type, amount) == IF type = "income" THEN Negate(amount) ELSE amount

\* await transaction.deleteOne() of the transaction saved before the balance check
RollbackMutant(saved, id) == saved
Rollback(saved, id) == Remove(saved, id)

\* a transaction accepted on a category of any type
TypeMismatchMutant(categoryType, type) == FALSE

\* if (category.type !== type): 400 'Category type does not match transaction type'
TypeMismatch(categoryType, type) == categoryType # type

\* POST /api/transactions
CreateTransaction(u, accountId, categoryId, amount, type) ==
  /\ ledger = "transactions"
  /\ UNCHANGED <<ledger, numbers, auth, requests>>
  /\ IF ~AmountValid(amount)
       THEN /\ resp' = Response(400, "Validation")
            /\ UNCHANGED <<accounts, transactions, nextId>>
       ELSE IF ~FindOne(accounts, accountId, u) \/ ~FindOne(categories, categoryId, u)
       THEN /\ resp' = Response(404, "NotFound")
            /\ UNCHANGED <<accounts, transactions, nextId>>
       ELSE IF TypeMismatch(categories[categoryId].type, type)
       THEN /\ resp' = Response(400, "TypeMismatch")
            /\ UNCHANGED <<accounts, transactions, nextId>>
       ELSE LET id == nextId.transaction
                transaction == [userId |-> u, accountId |-> accountId,
                                categoryId |-> categoryId, amount |-> amount,
                                type |-> type]
                saved == Insert(transactions, id, transaction)
                balance == Plus(accounts[accountId].balance, AmountChange(type, amount))
            IN  /\ id \in TransactionIdPool
                /\ IF Less(balance, Zero)
                  THEN /\ transactions' = Rollback(saved, id)
                       /\ resp' = Response(400, "InsufficientBalance")
                       /\ UNCHANGED <<accounts, nextId>>
                  ELSE /\ WithinBound(balance)
                       /\ transactions' = saved
                       /\ accounts' = SaveBalance(accountId, balance)
                       /\ nextId' = [nextId EXCEPT !.transaction = @ + 1]
                       /\ resp' = Response(201, "OK")
  /\ UNCHANGED <<categories, allocations, borrowings, borrowingTransactions>>

\* DELETE /api/transactions/:id
DeleteTransaction(u, id) ==
  /\ ledger = "transactions"
  /\ UNCHANGED <<ledger, numbers, auth, requests>>
  /\ IF ~FindOne(transactions, id, u)
       THEN /\ resp' = Response(404, "NotFound")
            /\ UNCHANGED <<accounts, transactions>>
       ELSE LET transaction == transactions[id]
                accountId == transaction.accountId
            IN  \* populate('accountId') leaves null for a missing account, and
                \* account.balance then throws
                IF ~FindById(accounts, accountId)
                  THEN /\ resp' = Response(500, "Error")
                       /\ UNCHANGED <<accounts, transactions>>
                  ELSE LET balance == Plus(accounts[accountId].balance,
                                           ReverseAmountChange(transaction.type,
                                                               transaction.amount))
                       IN  IF ~AccountValid(balance)
                             THEN /\ resp' = Response(500, "Error")
                                  /\ UNCHANGED <<accounts, transactions>>
                             ELSE /\ WithinBound(balance)
                                  /\ accounts' = SaveBalance(accountId, balance)
                                  /\ transactions' = Remove(transactions, id)
                                  /\ resp' = Response(200, "OK")
  /\ UNCHANGED <<categories, allocations, borrowings, borrowingTransactions,
                 nextId>>

\* ---------------------------------------------------------------- Borrowing
\* the schema validators of Borrowing, run by borrowing.save() before the hooks
BorrowingValid(b) ==
  /\ AmountValid(b.totalAmount)
  /\ ~Less(b.paidAmount, Zero)
  /\ ~Less(b.remainingAmount, Zero)

\* BorrowingSchema.pre('save')
BorrowingPreSaveMutant(b) ==
  LET remaining == Minus(b.totalAmount, b.paidAmount)
  IN  IF ~Less(Zero, remaining)
        THEN [b EXCEPT !.remainingAmount = remaining, !.status = "completed"]
        ELSE [b EXCEPT !.remainingAmount = remaining, !.status = "active"]
\* the hook that recomputes remainingAmount and sets every borrowing active
BorrowingPreSaveActive(b) ==
  LET remaining == Minus(b.totalAmount, b.paidAmount)
  IN  IF ~Less(Zero, remaining)
        THEN [b EXCEPT !.remainingAmount = Zero, !.status = "active"]
        ELSE [b EXCEPT !.remainingAmount = remaining, !.status = "active"]
BorrowingPreSave(b) ==
  LET remaining == Minus(b.totalAmount, b.paidAmount)
  IN  IF ~Less(Zero, remaining)
        THEN [b EXCEPT !.remainingAmount = Zero, !.status = "completed"]
        ELSE [b EXCEPT !.remainingAmount = remaining, !.status = "active"]

\* the balance moved the same way for a lend as for a borrow
BorrowingCreateBalanceMutant(balance, type, totalAmount) == Plus(balance, totalAmount)

\* POST /api/borrowings: the balance of the initial account after the creation
BorrowingCreateBalance(balance, type, totalAmount) ==
  IF type = "borrow" THEN Plus(balance, totalAmount) ELSE Minus(balance, totalAmount)

\* the balance moved the same way for a lend as for a borrow
PayBalanceMutant(balance, type, amount) == Minus(balance, amount)

\* POST /api/borrowings/:id/pay: the balance of the account after the payment
PayBalance(balance, type, amount) ==
  IF type = "borrow" THEN Minus(balance, amount) ELSE Plus(balance, amount)

\* POST /api/borrowings/:id/pay: the borrowing as the route updates it
PayUpdate(b, newPaidAmount) ==
  LET remaining == Minus(b.totalAmount, newPaidAmount)
  IN  IF ~Less(Zero, remaining)
        THEN [b EXCEPT !.paidAmount = newPaidAmount, !.remainingAmount = Zero,
                       !.status = "completed"]
        ELSE [b EXCEPT !.paidAmount = newPaidAmount, !.remainingAmount = remaining]

\* PUT /api/borrowings/:id: the borrowing as the route updates it
TotalAmountUpdate(b, totalAmount) ==
  LET remaining == Minus(totalAmount, b.paidAmount)
  IN  IF ~Less(Zero, remaining)
        THEN [b EXCEPT !.totalAmount = totalAmount, !.remainingAmount = Zero,
                       !.status = "completed"]
        ELSE [b EXCEPT !.totalAmount = totalAmount, !.remainingAmount = remaining,
                       !.status = "active"]

\* DELETE /api/borrowings/:id: the balance of the initial account after the reversal
BorrowingDeleteBalance(balance, type, totalAmount) ==
  IF type = "borrow" THEN Minus(balance, totalAmount) ELSE Plus(balance, totalAmount)

\* POST /api/borrowings
CreateBorrowing(u, type, totalAmount, hasAccount, initialAccountId) ==
  /\ ledger = "borrowings"
  /\ UNCHANGED <<ledger, numbers, auth, requests>>
  /\ IF ~AmountValid(totalAmount)
       THEN /\ resp' = Response(400, "Validation")
            /\ UNCHANGED <<accounts, borrowings, nextId>>
       ELSE IF hasAccount /\ ~FindOne(accounts, initialAccountId, u)
       THEN /\ resp' = Response(404, "NotFound")
            /\ UNCHANGED <<accounts, borrowings, nextId>>
       ELSE IF hasAccount /\ type = "lend"
               /\ Less(accounts[initialAccountId].balance, totalAmount)
       THEN /\ resp' = Response(400, "InsufficientBalance")
            /\ UNCHANGED <<accounts, borrowings, nextId>>
       ELSE LET id == nextId.borrowing
                balance == IF hasAccount
                             THEN BorrowingCreateBalance(
                                    accounts[initialAccountId].balance, type, totalAmount)
                             ELSE Zero
                borrowing == [userId |-> u, type |-> type,
                              totalAmount |-> totalAmount, paidAmount |-> Zero,
                              remainingAmount |-> totalAmount, status |-> "active",
                              initialAccountId |->
                                IF hasAccount THEN initialAccountId ELSE NoAccount]
            IN  /\ id \in BorrowingIdPool
                /\ WithinBound(balance)
                /\ IF hasAccount /\ ~AccountValid(balance)
                     THEN /\ resp' = Response(500, "Error")
                          /\ UNCHANGED <<accounts, borrowings, nextId>>
                     ELSE /\ accounts' = IF hasAccount
                                           THEN SaveBalance(initialAccountId, balance)
                                           ELSE accounts
                          /\ borrowings' = Insert(borrowings, id, BorrowingPreSave(borrowing))
                          /\ nextId' = [nextId EXCEPT !.borrowing = @ + 1]
                          /\ resp' = Response(201, "OK")
  /\ UNCHANGED <<categories, transactions, allocations, borrowingTransactions>>

\* POST /api/borrowings/:id/pay
PayBorrowing(u, id, amount, accountId) ==
  /\ ledger = "borrowings"
  /\ UNCHANGED <<ledger, numbers, auth, requests>>
  /\ IF ~AmountValid(amount)
       THEN /\ resp' = Response(400, "Validation")
            /\ UNCHANGED <<accounts, borrowings, borrowingTransactions, nextId>>
       ELSE IF ~FindOne(borrowings, id, u)
       THEN /\ resp' = Response(404, "NotFound")
            /\ UNCHANGED <<accounts, borrowings, borrowingTransactions, nextId>>
       ELSE IF borrowings[id].status = "completed"
       THEN /\ resp' = Response(400, "InvalidState")
            /\ UNCHANGED <<accounts, borrowings, borrowingTransactions, nextId>>
       ELSE IF ~FindOne(accounts, accountId, u)
       THEN /\ resp' = Response(404, "NotFound")
            /\ UNCHANGED <<accounts, borrowings, borrowingTransactions, nextId>>
       ELSE IF borrowings[id].type = "borrow"
               /\ Less(accounts[accountId].balance, amount)
       THEN /\ resp' = Response(400, "InsufficientBalance")
            /\ UNCHANGED <<accounts, borrowings, borrowingTransactions, nextId>>
       ELSE IF Less(borrowings[id].totalAmount, Plus(borrowings[id].paidAmount, amount))
       THEN /\ resp' = Response(400, "InvalidState")
            /\ UNCHANGED <<accounts, borrowings, borrowingTransactions, nextId>>
       ELSE LET borrowing == borrowings[id]
                transactionType == IF borrowing.type = "borrow" THEN "payment" ELSE "return"
                newPaidAmount == Plus(borrowing.paidAmount, amount)
                balance == PayBalance(accounts[accountId].balance, borrowing.type, amount)
                updated == PayUpdate(borrowing, newPaidAmount)
                transaction == [borrowingId |-> id, userId |-> u, amount |-> amount,
                                accountId |-> accountId, type |-> transactionType]
            IN  /\ nextId.borrowingTransaction <= MaxBorrowingTransactions
                /\ WithinBound(balance)
                /\ IF ~AccountValid(balance)
                     THEN /\ resp' = Response(500, "Error")
                          /\ UNCHANGED <<accounts, borrowings, borrowingTransactions,
                                         nextId>>
                     ELSE IF ~BorrowingValid(updated)
                     THEN /\ accounts' = SaveBalance(accountId, balance)
                          /\ resp' = Response(500, "Error")
                          /\ UNCHANGED <<borrowings, borrowingTransactions, nextId>>
                     ELSE /\ accounts' = SaveBalance(accountId, balance)
                          /\ borrowings' = [borrowings EXCEPT ![id] = BorrowingPreSave(updated)]
                          /\ borrowingTransactions' =
                               Insert(borrowingTransactions,
                                      nextId.borrowingTransaction, transaction)
                          /\ nextId' = [nextId EXCEPT !.borrowingTransaction = @ + 1]
                          /\ resp' = Response(200, "OK")
  /\ UNCHANGED <<categories, transactions, allocations>>

\* PUT /api/borrowings/:id
UpdateBorrowing(u, id, hasTotalAmount, totalAmount) ==
  /\ ledger = "borrowings"
  /\ UNCHANGED <<ledger, numbers, auth, requests>>
  /\ IF hasTotalAmount /\ ~AmountValid(totalAmount)
       THEN /\ resp' = Response(400, "Validation")
            /\ UNCHANGED borrowings
       ELSE IF ~FindOne(borrowings, id, u)
       THEN /\ resp' = Response(404, "NotFound")
            /\ UNCHANGED borrowings
       ELSE LET updated == IF hasTotalAmount
                             THEN TotalAmountUpdate(borrowings[id], totalAmount)
                             ELSE borrowings[id]
            IN  IF ~BorrowingValid(updated)
                  THEN /\ resp' = Response(500, "Error")
                       /\ UNCHANGED borrowings
                  ELSE /\ borrowings' = [borrowings EXCEPT ![id] = BorrowingPreSave(updated)]
                       /\ resp' = Response(200, "OK")
  /\ UNCHANGED <<accounts, categories, transactions, allocations,
                 borrowingTransactions, nextId>>

\* DELETE /api/borrowings/:id
DeleteBorrowing(u, id) ==
  /\ ledger = "borrowings"
  /\ UNCHANGED <<ledger, numbers, auth, requests>>
  /\ IF ~FindOne(borrowings, id, u)
       THEN /\ resp' = Response(404, "NotFound")
            /\ UNCHANGED <<accounts, borrowings, borrowingTransactions>>
       ELSE LET borrowing == borrowings[id]
                accountId == borrowing.initialAccountId
                reverse == accountId # NoAccount /\ FindById(accounts, accountId)
                balance == IF reverse
                             THEN BorrowingDeleteBalance(accounts[accountId].balance,
                                                         borrowing.type,
                                                         borrowing.totalAmount)
                             ELSE Zero
            IN  /\ WithinBound(balance)
                /\ borrowingTransactions' =
                     DeleteMany(borrowingTransactions,
                                {t \in DOMAIN borrowingTransactions :
                                   borrowingTransactions[t].borrowingId = id})
                /\ IF reverse /\ ~AccountValid(balance)
                     THEN /\ resp' = Response(500, "Error")
                          /\ UNCHANGED <<accounts, borrowings>>
                     ELSE /\ accounts' = IF reverse
                                           THEN SaveBalance(accountId, balance)
                                           ELSE accounts
                          /\ borrowings' = Remove(borrowings, id)
                          /\ resp' = Response(200, "OK")
  /\ UNCHANGED <<categories, transactions, allocations, nextId>>

\* --------------------------------------------------------------- Allocation
\* the month strings a request may carry; "2025-1" fails /^\d{4}-\d{2}$/
MonthInputs == Months \cup {"2025-1"}

\* the change of an income allocation applied to every allocation
MarkPaidChangeMutant(type, amount) == amount

\* const amountChange = allocation.type === 'income' ? allocation.amount : -allocation.amount
MarkPaidChange(type, amount) == IF type = "income" THEN amount ELSE Negate(amount)

\* allocation.monthlyPayments.findIndex((p) => p.month === month), 0 for -1
FindIndex(monthlyPayments, month) ==
  LET found == {i \in 1..Len(monthlyPayments) : monthlyPayments[i].month = month}
  IN  IF found = {} THEN 0 ELSE CHOOSE i \in found : \A j \in found : i <= j

\* the month's payment pushed whether or not the month has an entry
UpsertPaymentMutant(monthlyPayments, paymentData) == Append(monthlyPayments, paymentData)

\* the month's entry taken out and the new one pushed at the end
UpsertPaymentMovedMutant(monthlyPayments, paymentData) ==
  LET existingPaymentIndex == FindIndex(monthlyPayments, paymentData.month)
  IN  IF existingPaymentIndex >= 1
        THEN Append(SubSeq(monthlyPayments, 1, existingPaymentIndex - 1)
                      \o SubSeq(monthlyPayments, existingPaymentIndex + 1,
                                Len(monthlyPayments)),
                    paymentData)
        ELSE Append(monthlyPayments, paymentData)

\* the update or push of the month's payment
UpsertPayment(monthlyPayments, paymentData) ==
  LET existingPaymentIndex == FindIndex(monthlyPayments, paymentData.month)
  IN  IF existingPaymentIndex >= 1
        THEN [monthlyPayments EXCEPT ![existingPaymentIndex] = paymentData]
        ELSE Append(monthlyPayments, paymentData)

\* const paymentData = { month, accountId, paid: true, paidDate }
PaymentData(month, accountId) ==
  [month |-> month, accountId |-> accountId, paid |-> TRUE]

\* mark-paid without the balance check
MarkPaidInsufficientMutant(type, balance, amount) == FALSE

\* if (allocation.type !== 'income' && account.balance < allocation.amount)
MarkPaidInsufficient(type, balance, amount) == type # "income" /\ Less(balance, amount)

\* POST /api/allocations
CreateAllocation(u, amount, type) ==
  /\ ledger = "allocations"
  /\ UNCHANGED <<ledger, numbers, auth, requests>>
  /\ IF ~AmountValid(amount)
       THEN /\ resp' = Response(400, "Validation")
            /\ UNCHANGED <<allocations, nextId>>
       ELSE /\ nextId.allocation \in AllocationIdPool
            /\ allocations' = Insert(allocations, nextId.allocation,
                                     [userId |-> u, amount |-> amount, type |-> type,
                                      monthlyPayments |-> <<>>])
            /\ nextId' = [nextId EXCEPT !.allocation = @ + 1]
            /\ resp' = Response(201, "OK")
  /\ UNCHANGED <<accounts, categories, transactions, borrowings,
                 borrowingTransactions>>

\* PUT /api/allocations/:id
UpdateAllocation(u, id, hasAmount, amount, hasType, type) ==
  /\ ledger = "allocations"
  /\ UNCHANGED <<ledger, numbers, auth, requests>>
  /\ IF hasAmount /\ ~AmountValid(amount)
       THEN /\ resp' = Response(400, "Validation")
            /\ UNCHANGED allocations
       ELSE IF ~FindOne(allocations, id, u)
       THEN /\ resp' = Response(404, "NotFound")
            /\ UNCHANGED allocations
       ELSE /\ allocations' =
                 [allocations EXCEPT
                    ![id].amount = IF hasAmount THEN amount ELSE @,
                    ![id].type = IF hasType THEN type ELSE @]
            /\ resp' = Response(200, "OK")
  /\ UNCHANGED <<accounts, categories, transactions, borrowings,
                 borrowingTransactions, nextId>>

\* DELETE /api/allocations/:id
DeleteAllocation(u, id) ==
  /\ ledger = "allocations"
  /\ UNCHANGED <<ledger, numbers, auth, requests>>
  /\ IF ~FindOne(allocations, id, u)
       THEN /\ resp' = Response(404, "NotFound")
            /\ UNCHANGED allocations
       ELSE /\ allocations' = Remove(allocations, id)
            /\ resp' = Response(200, "OK")
  /\ UNCHANGED <<accounts, categories, transactions, borrowings,
                 borrowingTransactions, nextId>>

\* POST /api/allocations/:id/mark-paid
MarkPaid(u, id, accountId, month) ==
  /\ ledger = "allocations"
  /\ UNCHANGED <<ledger, numbers, auth, requests>>
  /\ IF month \notin Months
       THEN /\ resp' = Response(400, "Validation")
            /\ UNCHANGED <<accounts, categories, transactions, allocations, nextId>>
       ELSE IF ~FindOne(allocations, id, u) \/ ~FindOne(accounts, accountId, u)
       THEN /\ resp' = Response(404, "NotFound")
            /\ UNCHANGED <<accounts, categories, transactions, allocations, nextId>>
       ELSE IF MarkPaidInsufficient(allocations[id].type, accounts[accountId].balance,
                                    allocations[id].amount)
       THEN /\ resp' = Response(400, "InsufficientBalance")
            /\ UNCHANGED <<accounts, categories, transactions, allocations, nextId>>
       ELSE LET allocation == allocations[id]
                paymentData == PaymentData(month, accountId)
                balance == Plus(accounts[accountId].balance,
                                MarkPaidChange(allocation.type, allocation.amount))
                transactionType == IF allocation.type = "income" THEN "income" ELSE "expense"
                \* Category.findOne({ userId, type }): any one of the matches
                matches == {c \in DOMAIN categories :
                              /\ categories[c].userId = u
                              /\ categories[c].type = transactionType}
                transaction(c) == [userId |-> u, accountId |-> accountId,
                                   categoryId |-> c, amount |-> allocation.amount,
                                   type |-> transactionType]
            IN  /\ WithinBound(balance)
                /\ nextId.transaction \in TransactionIdPool
                /\ matches = {} => nextId.category \in CategoryIdPool
                /\ allocations' =
                     [allocations EXCEPT ![id].monthlyPayments = UpsertPayment(@, paymentData)]
                /\ IF ~AccountValid(balance)
                     THEN /\ resp' = Response(500, "Error")
                          /\ UNCHANGED <<accounts, categories, transactions, nextId>>
                     ELSE /\ accounts' = SaveBalance(accountId, balance)
                          /\ resp' = Response(200, "OK")
                          /\ IF matches = {}
                               THEN /\ categories' =
                                         Insert(categories, nextId.category,
                                                [userId |-> u, type |-> transactionType])
                                    /\ transactions' =
                                         Insert(transactions, nextId.transaction,
                                                transaction(nextId.category))
                                    /\ nextId' = [nextId EXCEPT !.category = @ + 1,
                                                                !.transaction = @ + 1]
                               ELSE /\ \E c \in matches :
                                         transactions' =
                                           Insert(transactions, nextId.transaction,
                                                  transaction(c))
                                    /\ nextId' = [nextId EXCEPT !.transaction = @ + 1]
                                    /\ UNCHANGED categories
  /\ UNCHANGED <<borrowings, borrowingTransactions>>

\* ------------------------------------------------------------------ history
\* a payment of borrowing b into account a was recorded in this step
PaidInto(b, a) ==
  \E t \in DOMAIN borrowingTransactions' \ DOMAIN borrowingTransactions :
    /\ borrowingTransactions'[t].borrowingId = b
    /\ borrowingTransactions'[t].accountId = a

\* What the steps did to a borrowing, for the properties that look back:
\* created is the change of the initial account's balance at the creation, pre is
\* that account's balance before it, and clean says that since the creation the
\* initial account and the borrowing were changed only by payments of the
\* borrowing into that account (pre is zero once clean is FALSE); reopened says
\* that the borrowing went from completed back to active at some step.
ObserveBorrowing(b) ==
  LET a == borrowings'[b].initialAccountId
  IN  IF b \notin DOMAIN borrowings
        THEN IF a = NoAccount
               THEN [created |-> Zero, pre |-> Zero, clean |-> FALSE,
                     reopened |-> FALSE]
               ELSE [created |-> Minus(accounts'[a].balance, accounts[a].balance),
                     pre |-> accounts[a].balance, clean |-> TRUE,
                     reopened |-> FALSE]
        ELSE LET was == history.borrowings[b]
                 clean == /\ was.clean
                          /\ a \in DOMAIN accounts'
                          /\ \/ /\ accounts'[a] = accounts[a]
                                /\ borrowings'[b] = borrowings[b]
                             \/ PaidInto(b, a)
             IN  [created |-> was.created,
                  pre |-> IF clean THEN was.pre ELSE Zero,
                  clean |-> clean,
                  reopened |-> \/ was.reopened
                               \/ /\ borrowings[b].status = "completed"
                                  /\ borrowings'[b].status = "active"]

\* What the steps did to a transaction: pre is its account's balance before the
\* creation, and clean says that the account was not changed since the creation
\* (pre is zero once clean is FALSE).
ObserveTransaction(t) ==
  LET a == transactions'[t].accountId
  IN  IF t \notin DOMAIN transactions
        THEN [pre |-> accounts[a].balance, clean |-> TRUE]
        ELSE LET was == history.transactions[t]
                 clean == /\ was.clean
                          /\ a \in DOMAIN accounts'
                          /\ accounts'[a] = accounts[a]
             IN  [pre |-> IF clean THEN was.pre ELSE Zero, clean |-> clean]

Observe ==
  history' = [borrowings |-> [b \in DOMAIN borrowings' |-> ObserveBorrowing(b)],
              transactions |-> [t \in DOMAIN transactions' |-> ObserveTransaction(t)]]

\* ------------------------------------------------------------ specification
\* the _ids a request may name: those of the documents and one of no document
AccountIds == DOMAIN accounts \cup {nextId.account}
CategoryIds == DOMAIN categories \cup {nextId.category}
TransactionIds == DOMAIN transactions \cup {nextId.transaction}
AllocationIds == DOMAIN allocations \cup {nextId.allocation}
BorrowingIds == DOMAIN borrowings \cup {nextId.borrowing}

\* the empty database of a fresh deployment
Empty ==
  /\ accounts = <<>>
  /\ categories = <<>>
  /\ transactions = <<>>
  /\ allocations = <<>>
  /\ borrowings = <<>>
  /\ borrowingTransactions = <<>>
  /\ nextId = [account |-> 1, category |-> 1, transaction |-> 1, allocation |-> 1,
               borrowing |-> 1, borrowingTransaction |-> 1]
  /\ resp = Response(0, "none")
  /\ history = [borrowings |-> <<>>, transactions |-> <<>>]
  /\ requests = <<>>
  /\ NoAuth

Init ==
  /\ Empty
  /\ numbers = "integer"
  /\ ledger \in Ledgers

Next ==
  \/ \E u \in Users, balance \in BalanceInputs : CreateAccount(u, balance) /\ Observe
  \/ \E u \in Users, id \in AccountIds, hasBalance \in BOOLEAN, balance \in BalanceInputs :
       (hasBalance \/ balance = 0) /\ UpdateAccount(u, id, hasBalance, balance) /\ Observe
  \/ \E u \in Users, id \in AccountIds : DeleteAccount(u, id) /\ Observe
  \/ \E u \in Users, type \in TransactionTypes : CreateCategory(u, type) /\ Observe
  \/ \E u \in Users, accountId \in AccountIds, categoryId \in CategoryIds,
        amount \in AmountInputs, type \in TransactionTypes :
       CreateTransaction(u, accountId, categoryId, amount, type) /\ Observe
  \/ \E u \in Users, id \in TransactionIds : DeleteTransaction(u, id) /\ Observe
  \/ \E u \in Users, amount \in AmountInputs, type \in AllocationTypes :
       CreateAllocation(u, amount, type) /\ Observe
  \/ \E u \in Users, id \in AllocationIds, accountId \in AccountIds, month \in MonthInputs :
       MarkPaid(u, id, accountId, month) /\ Observe
  \/ \E u \in Users, type \in BorrowingTypes, totalAmount \in AmountInputs,
        hasAccount \in BOOLEAN, initialAccountId \in AccountIds :
       (hasAccount \/ initialAccountId = 1)
       /\ CreateBorrowing(u, type, totalAmount, hasAccount, initialAccountId) /\ Observe
  \/ \E u \in Users, id \in BorrowingIds, amount \in AmountInputs, accountId \in AccountIds :
       PayBorrowing(u, id, amount, accountId) /\ Observe
  \/ \E u \in Users, id \in BorrowingIds, hasTotalAmount \in BOOLEAN,
        totalAmount \in AmountInputs :
       (hasTotalAmount \/ totalAmount = 0)
       /\ UpdateBorrowing(u, id, hasTotalAmount, totalAmount) /\ Observe
  \/ \E u \in Users, id \in BorrowingIds : DeleteBorrowing(u, id) /\ Observe

Spec == Init /\ [][Next]_vars

\* ------------------------------------------------------- amounts with a fraction
\* the amounts and balances of the requests: 0 is the amount the validators
\* reject, the others are the decimals 0.2, 0.5, 0.7 and 0.9 as the
\* Numbers of a request body
DoubleAmountInputs == {DoubleZero, ParseTenths(2), ParseTenths(5), ParseTenths(7)}
DoubleBalanceInputs == {DoubleZero, ParseTenths(9)}

DoubleInit ==
  /\ Empty
  /\ numbers = "double"
  /\ ledger \in {"transactions", "borrowings"}

\* the routes that add to and subtract from a balance, on amounts with a fraction
DoubleNext ==
  \/ \E u \in Users, balance \in DoubleBalanceInputs : CreateAccount(u, balance) /\ Observe
  \/ \E u \in Users, type \in TransactionTypes : CreateCategory(u, type) /\ Observe
  \/ \E u \in Users, accountId \in AccountIds, categoryId \in CategoryIds,
        amount \in DoubleAmountInputs, type \in TransactionTypes :
       CreateTransaction(u, accountId, categoryId, amount, type) /\ Observe
  \/ \E u \in Users, id \in TransactionIds : DeleteTransaction(u, id) /\ Observe
  \/ \E u \in Users, type \in BorrowingTypes, totalAmount \in DoubleAmountInputs,
        hasAccount \in BOOLEAN, initialAccountId \in AccountIds :
       (hasAccount \/ initialAccountId = 1)
       /\ CreateBorrowing(u, type, totalAmount, hasAccount, initialAccountId) /\ Observe
  \/ \E u \in Users, id \in BorrowingIds, amount \in DoubleAmountInputs,
        accountId \in AccountIds :
       PayBorrowing(u, id, amount, accountId) /\ Observe
  \/ \E u \in Users, id \in BorrowingIds, hasTotalAmount \in BOOLEAN,
        totalAmount \in DoubleAmountInputs :
       (hasTotalAmount \/ totalAmount = DoubleZero)
       /\ UpdateBorrowing(u, id, hasTotalAmount, totalAmount) /\ Observe
  \/ \E u \in Users, id \in BorrowingIds : DeleteBorrowing(u, id) /\ Observe

DoubleSpec == DoubleInit /\ [][DoubleNext]_vars

\* ------------------------------------------------------- months marked paid
\* The mark-paid route on an Allocation whose months were marked before: the
\* monthlyPayments are those that earlier mark-paid requests on account 1 left,
\* in either order, and the Transactions of those requests were deleted since.
MarkedBefore ==
  {<<>>,
   <<PaymentData("2025-01", 1)>>,
   <<PaymentData("2025-01", 1), PaymentData("2025-02", 1)>>,
   <<PaymentData("2025-02", 1), PaymentData("2025-01", 1)>>}

MarkPaidInit ==
  /\ \E first \in 0..MaxBalance, second \in 0..MaxBalance :
       accounts = <<[userId |-> "u1", balance |-> first],
                    [userId |-> "u1", balance |-> second]>>
  /\ categories = <<>>
  /\ transactions = <<>>
  /\ \E type \in AllocationTypes, monthlyPayments \in MarkedBefore :
       allocations = <<[userId |-> "u1", amount |-> 1, type |-> type,
                        monthlyPayments |-> monthlyPayments]>>
  /\ borrowings = <<>>
  /\ borrowingTransactions = <<>>
  /\ nextId = [account |-> 3, category |-> 1, transaction |-> 1, allocation |-> 2,
               borrowing |-> 1, borrowingTransaction |-> 1]
  /\ resp = Response(0, "none")
  /\ history = [borrowings |-> <<>>, transactions |-> <<>>]
  /\ ledger = "allocations"
  /\ numbers = "integer"
  /\ requests = <<>>
  /\ NoAuth

MarkPaidNext ==
  \/ \E u \in Users, id \in AllocationIds, accountId \in AccountIds, month \in MonthInputs :
       MarkPaid(u, id, accountId, month) /\ UNCHANGED history
  \/ \E u \in Users, id \in AccountIds : DeleteAccount(u, id) /\ UNCHANGED history

MarkPaidSpec == MarkPaidInit /\ [][MarkPaidNext]_vars

\* ------------------------------------------------------ requests in flight
\* Node runs a handler up to its next await, and the handlers of other requests
\* in between.  A slot holds the locals of one request of POST /api/transactions
\* or DELETE /api/transactions/:id: pc is the await it stands at, account the
\* Account document it loaded (its balance as read then), transaction the _id of
\* its Transaction.  history.expected is, for every account, its balance at the
\* start plus the changes of the requests that were answered with success.
Slots == {1, 2}
Idle == [pc |-> "idle"]

\* the response of the request of slot s is sent
Respond(s, status, kind) ==
  /\ resp' = Response(status, kind)
  /\ requests' = [requests EXCEPT ![s] = Idle]

\* the answer with success adds change to what account accountId should hold
Expect(accountId, change) ==
  history' = [history EXCEPT !.expected[accountId] = Plus(@, change)]

\* POST /api/transactions, up to the awaits Account.findOne and Category.findOne
PostTransactionFind(s, u, accountId, categoryId, amount, type) ==
  /\ requests[s].pc = "idle"
  /\ IF ~AmountValid(amount)
       THEN Respond(s, 400, "Validation")
       ELSE IF ~FindOne(accounts, accountId, u) \/ ~FindOne(categories, categoryId, u)
       THEN Respond(s, 404, "NotFound")
       ELSE IF TypeMismatch(categories[categoryId].type, type)
       THEN Respond(s, 400, "TypeMismatch")
       ELSE /\ requests' =
                 [requests EXCEPT ![s] =
                    [pc |-> "transaction.save", u |-> u, accountId |-> accountId,
                     categoryId |-> categoryId, amount |-> amount, type |-> type,
                     account |-> accounts[accountId]]]
            /\ UNCHANGED resp
  /\ UNCHANGED <<db, nextId, history, ledger, numbers, auth>>

\* POST /api/transactions: await transaction.save()
PostTransactionSave(s) ==
  LET r == requests[s]
      id == nextId.transaction
  IN  /\ r.pc = "transaction.save"
      /\ id \in TransactionIdPool
      /\ transactions' =
           Insert(transactions, id,
                  [userId |-> r.u, accountId |-> r.accountId,
                   categoryId |-> r.categoryId, amount |-> r.amount, type |-> r.type])
      /\ nextId' = [nextId EXCEPT !.transaction = @ + 1]
      /\ requests' = [requests EXCEPT ![s] =
                        [r EXCEPT !.pc = "account.save"] @@ [transaction |-> id]]
      /\ UNCHANGED <<accounts, categories, allocations, borrowings,
                     borrowingTransactions, resp, history, ledger, numbers, auth>>

\* POST /api/transactions: account.balance += amountChange, then either await
\* transaction.deleteOne() or await account.save(), and the response
PostTransactionBalance(s) ==
  LET r == requests[s]
      change == AmountChange(r.type, r.amount)
      balance == Plus(r.account.balance, change)
  IN  /\ r.pc = "account.save"
      /\ IF Less(balance, Zero)
           THEN /\ transactions' = Rollback(transactions, r.transaction)
                /\ Respond(s, 400, "InsufficientBalance")
                /\ UNCHANGED <<accounts, history>>
           ELSE /\ WithinBound(balance)
                /\ accounts' = SaveBalance(r.accountId, balance)
                /\ Respond(s, 201, "OK")
                /\ Expect(r.accountId, change)
                /\ UNCHANGED transactions
      /\ UNCHANGED <<categories, allocations, borrowings, borrowingTransactions,
                     nextId, ledger, numbers, auth>>

\* DELETE /api/transactions/:id, up to await Transaction.findOne().populate()
DeleteTransactionFind(s, u, id) ==
  /\ requests[s].pc = "idle"
  /\ IF ~FindOne(transactions, id, u)
       THEN Respond(s, 404, "NotFound")
       ELSE /\ requests' =
                 [requests EXCEPT ![s] =
                    [pc |-> "account.save.reverse", u |-> u, transaction |-> id,
                     accountId |-> transactions[id].accountId,
                     amount |-> transactions[id].amount,
                     type |-> transactions[id].type,
                     account |-> accounts[transactions[id].accountId]]]
            /\ UNCHANGED resp
  /\ UNCHANGED <<db, nextId, history, ledger, numbers, auth>>

\* DELETE /api/transactions/:id: account.balance += amountChange and await
\* account.save(), whose validation error ends the request
DeleteTransactionBalance(s) ==
  LET r == requests[s]
      balance == Plus(r.account.balance, ReverseAmountChange(r.type, r.amount))
  IN  /\ r.pc = "account.save.reverse"
      /\ WithinBound(balance)
      /\ IF ~AccountValid(balance)
           THEN /\ Respond(s, 500, "Error")
                /\ UNCHANGED accounts
           ELSE /\ accounts' = SaveBalance(r.accountId, balance)
                /\ requests' = [requests EXCEPT ![s].pc = "transaction.deleteOne"]
                /\ UNCHANGED resp
      /\ UNCHANGED <<categories, transactions, allocations, borrowings,
                     borrowingTransactions, nextId, history, ledger, numbers, auth>>

\* DELETE /api/transactions/:id: await transaction.deleteOne(), and the response
DeleteTransactionRemove(s) ==
  LET r == requests[s]
  IN  /\ r.pc = "transaction.deleteOne"
      /\ transactions' = Remove(transactions, r.transaction)
      /\ Respond(s, 200, "OK")
      /\ Expect(r.accountId, ReverseAmountChange(r.type, r.amount))
      /\ UNCHANGED <<accounts, categories, allocations, borrowings,
                     borrowingTransactions, nextId, ledger, numbers, auth>>

\* an account and a category of each type, as POST /api/accounts and POST
\* /api/categories leave them, and no request in flight
ConcInit ==
  /\ \E balance \in 0..MaxBalance : accounts = <<[userId |-> "u1", balance |-> balance]>>
  /\ categories = <<[userId |-> "u1", type |-> "income"],
                    [userId |-> "u1", type |-> "expense"]>>
  /\ transactions = <<>>
  /\ allocations = <<>>
  /\ borrowings = <<>>
  /\ borrowingTransactions = <<>>
  /\ nextId = [account |-> 2, category |-> 3, transaction |-> 1, allocation |-> 1,
               borrowing |-> 1, borrowingTransaction |-> 1]
  /\ resp = Response(0, "none")
  /\ history = [expected |-> [a \in DOMAIN accounts |-> accounts[a].balance],
                start |-> [a \in DOMAIN accounts |-> accounts[a].balance]]
  /\ ledger = "transactions"
  /\ numbers = "integer"
  /\ requests = [s \in Slots |-> Idle]
  /\ NoAuth

ConcNext ==
  \/ \E s \in Slots, u \in Users, accountId \in AccountIds, categoryId \in CategoryIds,
        amount \in AmountInputs, type \in TransactionTypes :
       PostTransactionFind(s, u, accountId, categoryId, amount, type)
  \/ \E s \in Slots : PostTransactionSave(s)
  \/ \E s \in Slots : PostTransactionBalance(s)
  \/ \E s \in Slots, u \in Users, id \in TransactionIds : DeleteTransactionFind(s, u, id)
  \/ \E s \in Slots : DeleteTransactionBalance(s)
  \/ \E s \in Slots : DeleteTransactionRemove(s)

ConcSpec == ConcInit /\ [][ConcNext]_vars

\* ------------------------------------------------------------ pays in flight
\* POST /api/borrowings/:id/pay, up to await Borrowing.findOne()
PayFindBorrowing(s, u, id, amount, accountId) ==
  /\ requests[s].pc = "idle"
  /\ nextId.borrowingTransaction
       + Cardinality({o \in DOMAIN requests : requests[o].pc # "idle"})
         <= MaxBorrowingTransactions
  /\ IF ~AmountValid(amount)
       THEN Respond(s, 400, "Validation")
       ELSE IF ~FindOne(borrowings, id, u)
       THEN Respond(s, 404, "NotFound")
       ELSE IF borrowings[id].status = "completed"
       THEN Respond(s, 400, "InvalidState")
       ELSE /\ requests' =
                 [requests EXCEPT ![s] =
                    [pc |-> "Account.findOne", u |-> u, id |-> id, amount |-> amount,
                     accountId |-> accountId, borrowing |-> borrowings[id]]]
            /\ UNCHANGED resp
  /\ UNCHANGED <<db, nextId, history, ledger, numbers, auth>>

\* POST /api/borrowings/:id/pay: await Account.findOne(), the checks on the
\* documents the handler loaded, and the new balance
PayFindAccount(s) ==
  LET r == requests[s]
  IN  /\ r.pc = "Account.findOne"
      /\ IF ~FindOne(accounts, r.accountId, r.u)
           THEN Respond(s, 404, "NotFound")
           ELSE IF r.borrowing.type = "borrow"
                   /\ Less(accounts[r.accountId].balance, r.amount)
           THEN Respond(s, 400, "InsufficientBalance")
           ELSE IF Less(r.borrowing.totalAmount, Plus(r.borrowing.paidAmount, r.amount))
           THEN Respond(s, 400, "InvalidState")
           ELSE /\ WithinBound(PayBalance(accounts[r.accountId].balance,
                                           r.borrowing.type, r.amount))
                /\ requests' =
                     [requests EXCEPT ![s] =
                        [r EXCEPT !.pc = "account.save"]
                          @@ [balance |-> PayBalance(accounts[r.accountId].balance,
                                                     r.borrowing.type, r.amount)]]
                /\ UNCHANGED resp
      /\ UNCHANGED <<db, nextId, history, ledger, numbers, auth>>

\* POST /api/borrowings/:id/pay: await account.save()
PayAccountSave(s) ==
  LET r == requests[s]
  IN  /\ r.pc = "account.save"
      /\ IF ~AccountValid(r.balance)
           THEN /\ Respond(s, 500, "Error")
                /\ UNCHANGED accounts
           ELSE /\ accounts' = [accounts EXCEPT ![r.accountId].balance = r.balance]
                /\ requests' = [requests EXCEPT ![s].pc = "borrowing.save"]
                /\ UNCHANGED resp
      /\ UNCHANGED <<categories, transactions, allocations, borrowings,
                     borrowingTransactions, nextId, history, ledger, numbers, auth>>

\* POST /api/borrowings/:id/pay: the loaded borrowing updated, await borrowing.save()
PayBorrowingSave(s) ==
  LET r == requests[s]
      updated == PayUpdate(r.borrowing, Plus(r.borrowing.paidAmount, r.amount))
  IN  /\ r.pc = "borrowing.save"
      /\ IF ~BorrowingValid(updated)
           THEN /\ Respond(s, 500, "Error")
                /\ UNCHANGED borrowings
           ELSE /\ borrowings' = [borrowings EXCEPT ![r.id] = BorrowingPreSave(updated)]
                /\ requests' = [requests EXCEPT ![s].pc = "transaction.save"]
                /\ UNCHANGED resp
      /\ UNCHANGED <<accounts, categories, transactions, allocations,
                     borrowingTransactions, nextId, history, ledger, numbers, auth>>

\* POST /api/borrowings/:id/pay: await transaction.save(), and the response
PayTransactionSave(s) ==
  LET r == requests[s]
  IN  /\ r.pc = "transaction.save"
      /\ borrowingTransactions' =
           Insert(borrowingTransactions, nextId.borrowingTransaction,
                  [borrowingId |-> r.id, userId |-> r.u, amount |-> r.amount,
                   accountId |-> r.accountId,
                   type |-> IF r.borrowing.type = "borrow" THEN "payment" ELSE "return"])
      /\ nextId' = [nextId EXCEPT !.borrowingTransaction = @ + 1]
      /\ Respond(s, 200, "OK")
      /\ UNCHANGED <<accounts, categories, transactions, allocations, borrowings,
                     history, ledger, numbers, auth>>

\* an account and a Borrowing without initial account, as POST /api/accounts
\* and POST /api/borrowings leave them, and no request in flight
PayInit ==
  /\ \E balance \in 0..MaxBalance : accounts = <<[userId |-> "u1", balance |-> balance]>>
  /\ categories = <<>>
  /\ transactions = <<>>
  /\ allocations = <<>>
  /\ \E type \in BorrowingTypes, totalAmount \in 1..MaxAmount :
       borrowings = <<[userId |-> "u1", type |-> type, totalAmount |-> totalAmount,
                       paidAmount |-> 0, remainingAmount |-> totalAmount,
                       status |-> "active", initialAccountId |-> NoAccount]>>
  /\ borrowingTransactions = <<>>
  /\ nextId = [account |-> 2, category |-> 1, transaction |-> 1, allocation |-> 1,
               borrowing |-> 2, borrowingTransaction |-> 1]
  /\ resp = Response(0, "none")
  /\ history = [borrowings |-> <<>>, transactions |-> <<>>]
  /\ ledger = "borrowings"
  /\ numbers = "integer"
  /\ requests = [s \in Slots |-> Idle]
  /\ NoAuth

PayNext ==
  \/ \E s \in Slots, u \in Users, id \in BorrowingIds, amount \in AmountInputs,
        accountId \in AccountIds :
       PayFindBorrowing(s, u, id, amount, accountId)
  \/ \E s \in Slots : PayFindAccount(s)
  \/ \E s \in Slots : PayAccountSave(s)
  \/ \E s \in Slots : PayBorrowingSave(s)
  \/ \E s \in Slots : PayTransactionSave(s)

PaySpec == PayInit /\ [][PayNext]_vars

\* ------------------------------------------------------------------ two users
\* The routes called by two users.  req.user.userId is the user of the token
\* the authenticate middleware verified; history holds the caller of the last
\* request and whether the request named a document of the other user.
TwoUsers == {"u1", "u2"}

\* id names a document of coll that is not u's
Foreign(coll, id, u) == id \in DOMAIN coll /\ coll[id].userId # u

Called(u, foreign) == history' = [caller |-> u, foreign |-> foreign]

\* the requests of the two users carry valid amounts, balances and months, and
\* one Transaction is made in a behaviour
TwoAmountInputs == {1}
TwoBalanceInputs == {1}
TwoMonthInputs == {"2025-01"}
TwoTransactionTypes == {"income", "expense"}
TwoAllocationTypes == {"expense", "income"}

TwoInit ==
  /\ accounts = <<>>
  /\ categories = <<>>
  /\ transactions = <<>>
  /\ allocations = <<>>
  /\ borrowings = <<>>
  /\ borrowingTransactions = <<>>
  /\ nextId = [account |-> 1, category |-> 1, transaction |-> 1, allocation |-> 1,
               borrowing |-> 1, borrowingTransaction |-> 1]
  /\ resp = Response(0, "none")
  /\ history = [caller |-> "none", foreign |-> FALSE]
  /\ requests = <<>>
  /\ NoAuth
  /\ numbers = "integer"
  /\ ledger \in Ledgers

TwoNext ==
  \/ \E u \in TwoUsers, balance \in TwoBalanceInputs :
       CreateAccount(u, balance) /\ Called(u, FALSE)
  \/ \E u \in TwoUsers, id \in AccountIds, hasBalance \in BOOLEAN, balance \in TwoBalanceInputs :
       (hasBalance \/ balance = 1) /\ UpdateAccount(u, id, hasBalance, balance)
       /\ Called(u, Foreign(accounts, id, u))
  \/ \E u \in TwoUsers, id \in AccountIds :
       DeleteAccount(u, id) /\ Called(u, Foreign(accounts, id, u))
  \/ \E u \in TwoUsers, type \in TwoTransactionTypes :
       CreateCategory(u, type) /\ Called(u, FALSE)
  \/ \E u \in TwoUsers, id \in CategoryIds, hasType \in BOOLEAN,
        type \in TwoTransactionTypes :
       (hasType \/ type = "expense") /\ UpdateCategory(u, id, hasType, type)
       /\ Called(u, Foreign(categories, id, u))
  \/ \E u \in TwoUsers, id \in CategoryIds :
       DeleteCategory(u, id) /\ Called(u, Foreign(categories, id, u))
  \/ \E u \in TwoUsers, accountId \in AccountIds, categoryId \in CategoryIds,
        amount \in TwoAmountInputs, type \in TwoTransactionTypes :
       nextId.transaction = 1
       /\ CreateTransaction(u, accountId, categoryId, amount, type)
       /\ Called(u, Foreign(accounts, accountId, u) \/ Foreign(categories, categoryId, u))
  \/ \E u \in TwoUsers, id \in TransactionIds :
       DeleteTransaction(u, id) /\ Called(u, Foreign(transactions, id, u))
  \/ \E u \in TwoUsers, amount \in TwoAmountInputs, type \in TwoAllocationTypes :
       CreateAllocation(u, amount, type) /\ Called(u, FALSE)
  \/ \E u \in TwoUsers, id \in AllocationIds, hasAmount \in BOOLEAN,
        amount \in TwoAmountInputs, hasType \in BOOLEAN, type \in TwoAllocationTypes :
       (hasType \/ type = "expense")
       /\ UpdateAllocation(u, id, hasAmount, amount, hasType, type)
       /\ Called(u, Foreign(allocations, id, u))
  \/ \E u \in TwoUsers, id \in AllocationIds :
       DeleteAllocation(u, id) /\ Called(u, Foreign(allocations, id, u))
  \/ \E u \in TwoUsers, id \in AllocationIds, accountId \in AccountIds,
        month \in TwoMonthInputs :
       nextId.transaction = 1
       /\ MarkPaid(u, id, accountId, month)
       /\ Called(u, Foreign(allocations, id, u) \/ Foreign(accounts, accountId, u))
  \/ \E u \in TwoUsers, type \in BorrowingTypes, totalAmount \in TwoAmountInputs,
        hasAccount \in BOOLEAN, initialAccountId \in AccountIds :
       (hasAccount \/ initialAccountId = 1)
       /\ CreateBorrowing(u, type, totalAmount, hasAccount, initialAccountId)
       /\ Called(u, hasAccount /\ Foreign(accounts, initialAccountId, u))
  \/ \E u \in TwoUsers, id \in BorrowingIds, amount \in TwoAmountInputs,
        accountId \in AccountIds :
       PayBorrowing(u, id, amount, accountId)
       /\ Called(u, Foreign(borrowings, id, u) \/ Foreign(accounts, accountId, u))
  \/ \E u \in TwoUsers, id \in BorrowingIds, hasTotalAmount \in BOOLEAN,
        totalAmount \in TwoAmountInputs :
       (hasTotalAmount \/ totalAmount = 1)
       /\ UpdateBorrowing(u, id, hasTotalAmount, totalAmount)
       /\ Called(u, Foreign(borrowings, id, u))
  \/ \E u \in TwoUsers, id \in BorrowingIds :
       DeleteBorrowing(u, id) /\ Called(u, Foreign(borrowings, id, u))

TwoSpec == TwoInit /\ [][TwoNext]_vars

\* ----------------------------------------------------------------- properties
\* the amounts of the requests of the behaviour that pass the validators
ValidAmounts ==
  {amount \in IF numbers = "integer" THEN AmountInputs ELSE DoubleAmountInputs :
     AmountValid(amount)}

\* the documents of after that coll does not hold
Added(coll, after) == DOMAIN after \ DOMAIN coll

\* after holds everything coll held, unchanged, and exactly one new document
OneAdded(coll, after) ==
  /\ \A i \in DOMAIN coll : i \in DOMAIN after /\ after[i] = coll[i]
  /\ Cardinality(Added(coll, after)) = 1

\* C1: after any sequence of completed operations every Account's balance is
\* greater than or equal to zero.
C1_BalanceNonNegative ==
  \A a \in DOMAIN accounts : ~Less(accounts[a].balance, Zero)

\* a deletion of a borrow whose reversal would take the account below zero was
\* refused by the save of the account
C1_Witness ==
  /\ resp.status = 500
  /\ \E b \in DOMAIN borrowings :
       /\ borrowings[b].type = "borrow"
       /\ borrowings[b].initialAccountId \in DOMAIN accounts
       /\ Less(accounts[borrowings[b].initialAccountId].balance,
               borrowings[b].totalAmount)

\* C2: every persisted Borrowing has remainingAmount = max(totalAmount -
\* paidAmount, 0) and has status completed exactly when remainingAmount is 0.
C2_BorrowingDerived ==
  \A b \in DOMAIN borrowings :
    LET difference == Minus(borrowings[b].totalAmount, borrowings[b].paidAmount)
    IN  /\ borrowings[b].remainingAmount =
             IF Less(difference, Zero) THEN Zero ELSE difference
        /\ borrowings[b].status \in {"active", "completed"}
        /\ borrowings[b].status = "completed" <=> borrowings[b].remainingAmount = Zero

\* the total of a borrowing was lowered below what was already paid
C2_Witness ==
  \E b \in DOMAIN borrowings :
    /\ Less(borrowings[b].totalAmount, borrowings[b].paidAmount)
    /\ resp.status = 200

\* C3: an operation rejected as not found, validation error, insufficient
\* balance or invalid state leaves every collection exactly as it was.
C3_RejectedUnchanged ==
  [][resp'.status \in {400, 404} => db' = db]_vars

\* an expense was rejected for insufficient balance after its transaction had
\* been saved, with an earlier transaction still persisted
C3_Witness ==
  /\ ledger = "transactions"
  /\ resp = Response(400, "InsufficientBalance")
  /\ transactions # <<>>

\* C5: creating a Transaction and then deleting it restores the account's
\* balance exactly, for income and for expense: the deletion of a transaction
\* whose account was not changed since the creation leaves the balance the
\* account had before the creation.
C5_CreateDeleteRestores ==
  [][\A u \in Users, id \in TransactionIds :
       ( /\ DeleteTransaction(u, id)
         /\ resp'.status = 200
         /\ history.transactions[id].clean )
       => accounts'[transactions[id].accountId].balance
            = history.transactions[id].pre]_vars

\* C6: with an Account and a Category of the Transaction's type that exist, an
\* expense greater than the balance is rejected as insufficient balance and
\* changes nothing; an expense up to the balance succeeds, lowers the balance by
\* the amount and persists one Transaction; an income succeeds and raises the
\* balance by the amount.
C6_CreateTransaction ==
  [][\A u \in Users, accountId \in AccountIds, categoryId \in CategoryIds,
        amount \in ValidAmounts, type \in TransactionTypes :
       ( /\ FindOne(accounts, accountId, u)
         /\ FindOne(categories, categoryId, u)
         /\ categories[categoryId].type = type
         /\ CreateTransaction(u, accountId, categoryId, amount, type) )
       => IF type = "expense" /\ Less(accounts[accountId].balance, amount)
            THEN /\ resp' = Response(400, "InsufficientBalance")
                 /\ db' = db
            ELSE /\ resp'.status = 201
                 /\ accounts' =
                      [accounts EXCEPT ![accountId].balance =
                         IF type = "income" THEN Plus(@, amount)
                                            ELSE Minus(@, amount)]
                 /\ OneAdded(transactions, transactions')
                 /\ \A t \in Added(transactions, transactions') :
                      /\ transactions'[t].accountId = accountId
                      /\ transactions'[t].amount = amount
                      /\ transactions'[t].type = type]_vars

\* an expense was rejected for insufficient balance on an account that an
\* earlier, persisted expense had drawn on
C6_Witness ==
  /\ resp = Response(400, "InsufficientBalance")
  /\ \E t \in DOMAIN transactions :
       /\ transactions[t].type = "expense"
       /\ transactions[t].accountId \in DOMAIN accounts
       /\ \E amount \in ValidAmounts :
            Less(accounts[transactions[t].accountId].balance, amount)

\* C7: creating a Borrowing with an initialAccountId raises that account's
\* balance by totalAmount for a borrow and lowers it by totalAmount for a lend; a
\* lend with balance below totalAmount is rejected and changes nothing; a borrow
\* is allowed at any balance; the new Borrowing has paidAmount 0, remainingAmount
\* = totalAmount and status active; without an initialAccountId no account
\* changes.
C7_CreateBorrowing ==
  [][\A u \in Users, type \in BorrowingTypes, totalAmount \in ValidAmounts,
        hasAccount \in BOOLEAN, initialAccountId \in AccountIds :
       ( /\ hasAccount => FindOne(accounts, initialAccountId, u)
         /\ CreateBorrowing(u, type, totalAmount, hasAccount, initialAccountId) )
       => IF hasAccount /\ type = "lend"
             /\ Less(accounts[initialAccountId].balance, totalAmount)
            THEN /\ resp' = Response(400, "InsufficientBalance")
                 /\ db' = db
            ELSE /\ resp'.status = 201
                 /\ accounts' =
                      IF hasAccount
                        THEN [accounts EXCEPT ![initialAccountId].balance =
                                IF type = "borrow" THEN Plus(@, totalAmount)
                                                   ELSE Minus(@, totalAmount)]
                        ELSE accounts
                 /\ OneAdded(borrowings, borrowings')
                 /\ \A b \in Added(borrowings, borrowings') :
                      /\ borrowings'[b].type = type
                      /\ borrowings'[b].totalAmount = totalAmount
                      /\ borrowings'[b].paidAmount = Zero
                      /\ borrowings'[b].remainingAmount = totalAmount
                      /\ borrowings'[b].status = "active"]_vars

\* a borrow was created on an account whose balance was 0
C7_Witness ==
  /\ resp.status = 201
  /\ \E b \in DOMAIN borrowings :
       /\ borrowings[b].type = "borrow"
       /\ borrowings[b].paidAmount = Zero
       /\ borrowings[b].initialAccountId \in DOMAIN accounts
       /\ accounts[borrowings[b].initialAccountId].balance = borrowings[b].totalAmount

\* what an accepted payment of amount from accountId on borrowing id does, and
\* what a rejected one leaves
PayOutcome(accepted, id, amount, accountId) ==
  IF accepted
    THEN /\ resp'.status = 200
         /\ accounts' =
              [accounts EXCEPT ![accountId].balance =
                 IF borrowings[id].type = "borrow" THEN Minus(@, amount)
                                                   ELSE Plus(@, amount)]
         /\ borrowings'[id].paidAmount = Plus(borrowings[id].paidAmount, amount)
         /\ OneAdded(borrowingTransactions, borrowingTransactions')
         /\ \A t \in Added(borrowingTransactions, borrowingTransactions') :
              /\ borrowingTransactions'[t].borrowingId = id
              /\ borrowingTransactions'[t].amount = amount
              /\ borrowingTransactions'[t].type =
                   IF borrowings[id].type = "borrow" THEN "payment" ELSE "return"
    ELSE /\ resp'.status = 400
         /\ db' = db

C9_DeleteReversesCreation ==
  [][\A u \in Users, id \in BorrowingIds :
       ( /\ DeleteBorrowing(u, id)
         /\ resp'.status = 200
         /\ borrowings[id].initialAccountId \in DOMAIN accounts )
       => accounts' =
            [accounts EXCEPT ![borrowings[id].initialAccountId].balance =
               Minus(@, history.borrowings[id].created)]]_vars

\* a lend created on an account and then changed, with the account, by returns
\* into that account only, and returned in full
ReturnedInFull(b) ==
  /\ borrowings[b].type = "lend"
  /\ history.borrowings[b].clean
  /\ borrowings[b].paidAmount = borrowings[b].totalAmount

\* C10: once a lend created on account A is returned in full into A, with no
\* other operation on A, the balance of A is what it was before the creation,
\* the Borrowing is completed with remainingAmount 0, and a further payment is
\* rejected as invalid state and changes nothing.
C10_LendReturned ==
  [][/\ \A b \in DOMAIN borrowings' :
          ReturnedInFull(b)'
          => /\ accounts'[borrowings'[b].initialAccountId].balance
                  = history'.borrowings[b].pre
             /\ borrowings'[b].status = "completed"
             /\ borrowings'[b].remainingAmount = Zero
     /\ \A u \in Users, id \in DOMAIN borrowings, accountId \in AccountIds,
           amount \in ValidAmounts :
          (ReturnedInFull(id) /\ PayBorrowing(u, id, amount, accountId))
          => /\ resp' = Response(400, "InvalidState")
             /\ db' = db]_vars

\* C4: concurrent operations on the same Account lose no update: once every
\* request is answered, the balance is the balance at the start plus the changes
\* of the requests that were answered with success.
C4_NoLostUpdate ==
  (\A s \in DOMAIN requests : requests[s].pc = "idle")
  => \A a \in DOMAIN accounts : accounts[a].balance = history.expected[a]

\* C11: a Borrowing starts active; whenever a step saves a Borrowing it is
\* completed exactly when totalAmount - paidAmount <= 0; no step lowers
\* paidAmount; and a completed Borrowing becomes active again only by an update
\* (no payment recorded, no account changed) that raises totalAmount above the
\* unchanged paidAmount.
C11_StatusTransitions ==
  [][/\ \A b \in DOMAIN borrowings' \ DOMAIN borrowings :
          borrowings'[b].status = "active"
     /\ \A b \in DOMAIN borrowings \cap DOMAIN borrowings' :
          LET was == borrowings[b]
              now == borrowings'[b]
          IN  /\ ~Less(now.paidAmount, was.paidAmount)
              /\ now # was =>
                   (now.status = "completed"
                      <=> ~Less(Zero, Minus(now.totalAmount, now.paidAmount)))
              /\ (was.status = "completed" /\ now.status = "active") =>
                   /\ now.paidAmount = was.paidAmount
                   /\ Less(was.totalAmount, now.totalAmount)
                   /\ Less(now.paidAmount, now.totalAmount)
                   /\ borrowingTransactions' = borrowingTransactions
                   /\ accounts' = accounts]_vars

\* a borrowing paid in full and completed was taken back to active by an update
\* that raised totalAmount, and a payment is recorded for it
C11_Witness ==
  \E b \in DOMAIN borrowings :
    /\ history.borrowings[b].reopened
    /\ borrowings[b].status = "active"
    /\ Less(Zero, borrowings[b].paidAmount)
    /\ \E t \in DOMAIN borrowingTransactions :
         borrowingTransactions[t].borrowingId = b

\* the entries of monthlyPayments for month
EntriesOf(monthlyPayments, month) ==
  {i \in 1..Len(monthlyPayments) : monthlyPayments[i].month = month}

\* C12: every Allocation's monthlyPayments holds at most one entry per month;
\* a successful mark-paid, also of a month already marked, leaves exactly one
\* entry for that month and no entry of another month added or removed, and
\* changes the account's balance by the full amount of the allocation.
C12_OneEntryPerMonth ==
  /\ [](\A id \in DOMAIN allocations, month \in Months :
          Cardinality(EntriesOf(allocations[id].monthlyPayments, month)) <= 1)
  /\ [][\A u \in Users, id \in AllocationIds, accountId \in AccountIds,
           month \in Months :
          (MarkPaid(u, id, accountId, month) /\ resp'.status = 200) =>
            LET before == allocations[id].monthlyPayments
                after == allocations'[id].monthlyPayments
            IN  /\ Cardinality(EntriesOf(after, month)) = 1
                /\ \A other \in Months \ {month} :
                     Cardinality(EntriesOf(after, other))
                       = Cardinality(EntriesOf(before, other))
                /\ accounts'[accountId].balance =
                     Plus(accounts[accountId].balance,
                          MarkPaidChange(allocations[id].type, allocations[id].amount))]_vars

\* one month of an allocation was marked paid twice: one entry, two Transactions
C12_Witness ==
  /\ ledger = "allocations"
  /\ resp = Response(200, "OK")
  /\ Cardinality(DOMAIN transactions) = 2
  /\ \E id \in DOMAIN allocations : Len(allocations[id].monthlyPayments) = 1

\* C13: mark-paid of an expense or savings Allocation on an account whose
\* balance is below the allocation's amount is rejected as insufficient balance
\* with the allocations (their monthlyPayments), accounts, transactions and
\* categories exactly as before; mark-paid of an income Allocation is never
\* rejected as insufficient balance, whatever the balance.
C13_MarkPaidInsufficient ==
  [][\A u \in Users, id \in AllocationIds, accountId \in AccountIds,
        month \in Months :
       ( /\ FindOne(allocations, id, u) /\ FindOne(accounts, accountId, u)
         /\ MarkPaid(u, id, accountId, month) ) =>
         IF allocations[id].type = "income"
           THEN resp' = Response(200, "OK")
           ELSE Less(accounts[accountId].balance, allocations[id].amount) =>
                  /\ resp' = Response(400, "InsufficientBalance")
                  /\ db' = db]_vars

\* both months of an allocation are marked paid, and a further mark-paid was
\* rejected as insufficient balance: the month it named had an entry
C13_Witness ==
  /\ ledger = "allocations"
  /\ resp = Response(400, "InsufficientBalance")
  /\ \E id \in DOMAIN allocations :
       /\ Len(allocations[id].monthlyPayments) = 2
       /\ \A a \in DOMAIN accounts : Less(accounts[a].balance, allocations[id].amount)

\* C14: a successful mark-paid changes the balance of the named account once,
\* by +amount for an income Allocation and -amount for expense or savings, and
\* no other account; it adds exactly one Transaction, of the caller, on that
\* account, with the allocation's amount, of type income for an income
\* Allocation and expense otherwise, whose Category exists, is the caller's
\* and has the Transaction's type; when the caller had no Category of that type
\* exactly one Category is added, otherwise the categories are unchanged.
C14_MarkPaidEffects ==
  [][\A u \in Users, id \in AllocationIds, accountId \in AccountIds,
        month \in Months :
       (MarkPaid(u, id, accountId, month) /\ resp'.status = 200) =>
         LET allocation == allocations[id]
             type == IF allocation.type = "income" THEN "income" ELSE "expense"
             balance == accounts[accountId].balance
             had == \E c \in DOMAIN categories :
                      categories[c].userId = u /\ categories[c].type = type
         IN  /\ accounts' = [accounts EXCEPT ![accountId].balance =
                               IF allocation.type = "income"
                                 THEN Plus(balance, allocation.amount)
                                 ELSE Minus(balance, allocation.amount)]
             /\ OneAdded(transactions, transactions')
             /\ \A t \in Added(transactions, transactions') :
                  LET c == transactions'[t].categoryId
                  IN  /\ transactions'[t].userId = u
                      /\ transactions'[t].accountId = accountId
                      /\ transactions'[t].amount = allocation.amount
                      /\ transactions'[t].type = type
                      /\ c \in DOMAIN categories'
                      /\ categories'[c] = [userId |-> u, type |-> type]
             /\ IF had THEN categories' = categories
                       ELSE OneAdded(categories, categories')]_vars

\* a savings Allocation was marked paid: the Transaction is an expense on a
\* Category of type expense, and the account was charged
C14_Witness ==
  /\ ledger = "allocations"
  /\ resp = Response(200, "OK")
  /\ \E id \in DOMAIN allocations, t \in DOMAIN transactions :
       /\ allocations[id].type = "savings"
       /\ Len(allocations[id].monthlyPayments) = 1
       /\ transactions[t].type = "expense"
       /\ transactions[t].amount = allocations[id].amount
       /\ transactions[t].categoryId \in DOMAIN categories
       /\ categories[transactions[t].categoryId].type = "expense"
       /\ Cardinality(DOMAIN categories) = 1

\* C15: the deletion of an existing Transaction of the caller is always allowed,
\* whatever the balance of its account: it answers 200, the account's balance is
\* changed by -amount for an income and +amount for an expense, and the
\* Transaction is removed.
C15_DeleteAlwaysAllowed ==
  [][\A u \in Users, id \in TransactionIds :
       (FindOne(transactions, id, u) /\ DeleteTransaction(u, id)) =>
         LET transaction == transactions[id]
             balance == accounts[transaction.accountId].balance
         IN  /\ resp' = Response(200, "OK")
             /\ id \notin DOMAIN transactions'
             /\ accounts'[transaction.accountId].balance =
                  IF transaction.type = "income"
                    THEN Minus(balance, transaction.amount)
                    ELSE Plus(balance, transaction.amount)]_vars

\* every document that is not u's is there after the step as it was before
OthersUnchanged(u) ==
  /\ \A id \in DOMAIN accounts : Foreign(accounts, id, u) =>
       id \in DOMAIN accounts' /\ accounts'[id] = accounts[id]
  /\ \A id \in DOMAIN categories : Foreign(categories, id, u) =>
       id \in DOMAIN categories' /\ categories'[id] = categories[id]
  /\ \A id \in DOMAIN transactions : Foreign(transactions, id, u) =>
       id \in DOMAIN transactions' /\ transactions'[id] = transactions[id]
  /\ \A id \in DOMAIN allocations : Foreign(allocations, id, u) =>
       id \in DOMAIN allocations' /\ allocations'[id] = allocations[id]
  /\ \A id \in DOMAIN borrowings : Foreign(borrowings, id, u) =>
       id \in DOMAIN borrowings' /\ borrowings'[id] = borrowings[id]
  /\ \A id \in DOMAIN borrowingTransactions : Foreign(borrowingTransactions, id, u) =>
       /\ id \in DOMAIN borrowingTransactions'
       /\ borrowingTransactions'[id] = borrowingTransactions[id]

\* a request of u that names the account id of another user changes nothing and
\* is answered as the same request that names the _id of no account
ForeignAccount(u, id) ==
  /\ \A hasBalance \in BOOLEAN, balance \in TwoBalanceInputs :
       UpdateAccount(u, id, hasBalance, balance) =>
         db' = db /\ UpdateAccount(u, nextId.account, hasBalance, balance)
  /\ DeleteAccount(u, id) => db' = db /\ DeleteAccount(u, nextId.account)
  /\ \A categoryId \in CategoryIds, amount \in TwoAmountInputs,
        type \in TwoTransactionTypes :
       CreateTransaction(u, id, categoryId, amount, type) =>
         db' = db /\ CreateTransaction(u, nextId.account, categoryId, amount, type)
  /\ \A allocationId \in AllocationIds, month \in TwoMonthInputs :
       MarkPaid(u, allocationId, id, month) =>
         db' = db /\ MarkPaid(u, allocationId, nextId.account, month)
  /\ \A type \in BorrowingTypes, totalAmount \in TwoAmountInputs :
       CreateBorrowing(u, type, totalAmount, TRUE, id) =>
         db' = db /\ CreateBorrowing(u, type, totalAmount, TRUE, nextId.account)
  /\ \A borrowingId \in BorrowingIds, amount \in TwoAmountInputs :
       PayBorrowing(u, borrowingId, amount, id) =>
         db' = db /\ PayBorrowing(u, borrowingId, amount, nextId.account)

\* the same for the _id of a category, transaction, allocation or borrowing of
\* another user
ForeignCategory(u, id) ==
  /\ \A accountId \in AccountIds, amount \in TwoAmountInputs,
        type \in TwoTransactionTypes :
       CreateTransaction(u, accountId, id, amount, type) =>
         db' = db /\ CreateTransaction(u, accountId, nextId.category, amount, type)
  /\ \A hasType \in BOOLEAN, type \in TwoTransactionTypes :
       UpdateCategory(u, id, hasType, type) =>
         db' = db /\ UpdateCategory(u, nextId.category, hasType, type)
  /\ DeleteCategory(u, id) => db' = db /\ DeleteCategory(u, nextId.category)

ForeignTransaction(u, id) ==
  DeleteTransaction(u, id) => db' = db /\ DeleteTransaction(u, nextId.transaction)

ForeignAllocation(u, id) ==
  /\ \A accountId \in AccountIds, month \in TwoMonthInputs :
       MarkPaid(u, id, accountId, month) =>
         db' = db /\ MarkPaid(u, nextId.allocation, accountId, month)
  /\ \A hasAmount \in BOOLEAN, amount \in TwoAmountInputs, hasType \in BOOLEAN,
        type \in TwoAllocationTypes :
       UpdateAllocation(u, id, hasAmount, amount, hasType, type) =>
         db' = db /\ UpdateAllocation(u, nextId.allocation, hasAmount, amount,
                                      hasType, type)
  /\ DeleteAllocation(u, id) => db' = db /\ DeleteAllocation(u, nextId.allocation)

ForeignBorrowing(u, id) ==
  /\ \A amount \in TwoAmountInputs, accountId \in AccountIds :
       PayBorrowing(u, id, amount, accountId) =>
         db' = db /\ PayBorrowing(u, nextId.borrowing, amount, accountId)
  /\ \A hasTotalAmount \in BOOLEAN, totalAmount \in TwoAmountInputs :
       UpdateBorrowing(u, id, hasTotalAmount, totalAmount) =>
         db' = db /\ UpdateBorrowing(u, nextId.borrowing, hasTotalAmount, totalAmount)
  /\ DeleteBorrowing(u, id) => db' = db /\ DeleteBorrowing(u, nextId.borrowing)

\* C16: a request of user u that names the id of an Account, Category,
\* Transaction, Allocation or Borrowing of another user has the outcome of the
\* same request naming an id of no document (not found) and changes nothing,
\* and no request of u changes or removes a document of another user.
C16_ScopedByCaller ==
  [][\A u \in TwoUsers :
       history'.caller = u =>
         /\ OthersUnchanged(u)
         /\ history'.foreign =>
              /\ \A id \in DOMAIN accounts :
                   Foreign(accounts, id, u) => ForeignAccount(u, id)
              /\ \A id \in DOMAIN categories :
                   Foreign(categories, id, u) => ForeignCategory(u, id)
              /\ \A id \in DOMAIN transactions :
                   Foreign(transactions, id, u) => ForeignTransaction(u, id)
              /\ \A id \in DOMAIN allocations :
                   Foreign(allocations, id, u) => ForeignAllocation(u, id)
              /\ \A id \in DOMAIN borrowings :
                   Foreign(borrowings, id, u) => ForeignBorrowing(u, id)]_vars

\* a request that named a document of the other user was answered not found,
\* and that user's account holds a balance
C16_Witness ==
  /\ history.foreign
  /\ resp = Response(404, "NotFound")
  /\ \E id \in DOMAIN accounts :
       /\ accounts[id].userId # history.caller
       /\ Less(Zero, accounts[id].balance)

\* the step is a request of one of the balance-mutating operations
BalanceMutation ==
  \/ \E u \in Users, accountId \in AccountIds, categoryId \in CategoryIds,
        amount \in AmountInputs, type \in TransactionTypes :
       CreateTransaction(u, accountId, categoryId, amount, type)
  \/ \E u \in Users, id \in TransactionIds : DeleteTransaction(u, id)
  \/ \E u \in Users, id \in AllocationIds, accountId \in AccountIds,
        month \in MonthInputs :
       MarkPaid(u, id, accountId, month)
  \/ \E u \in Users, type \in BorrowingTypes, totalAmount \in AmountInputs,
        hasAccount \in BOOLEAN, initialAccountId \in AccountIds :
       CreateBorrowing(u, type, totalAmount, hasAccount, initialAccountId)
  \/ \E u \in Users, id \in BorrowingIds, amount \in AmountInputs,
        accountId \in AccountIds :
       PayBorrowing(u, id, amount, accountId)
  \/ \E u \in Users, id \in BorrowingIds : DeleteBorrowing(u, id)

\* C17: a step that changes the balance of an existing Account is a transaction
\* create or delete, an allocation mark-paid or a borrowing create, pay or
\* delete; an account update leaves the balance of the account as it was.
C17_BalanceOnlyByMutations ==
  [][/\ \A a \in DOMAIN accounts \cap DOMAIN accounts' :
          accounts'[a].balance # accounts[a].balance => BalanceMutation
     /\ \A u \in Users, id \in DOMAIN accounts, hasBalance \in BOOLEAN,
           balance \in BalanceInputs :
          UpdateAccount(u, id, hasBalance, balance) =>
            /\ id \in DOMAIN accounts'
            /\ accounts'[id].balance = accounts[id].balance]_vars

\* C18: the creation of a Transaction whose type differs from the type of the
\* Category it names persists no Transaction and changes no balance; when the
\* amount is valid and the account is the caller's it is rejected with status
\* 400 for the mismatch of the types.
C18_TypeMismatchRejected ==
  [][\A u \in Users, accountId \in AccountIds, categoryId \in DOMAIN categories,
        amount \in AmountInputs, type \in TransactionTypes :
       ( /\ categories[categoryId].type # type
         /\ CreateTransaction(u, accountId, categoryId, amount, type) ) =>
         /\ db' = db
         /\ resp'.status \in {400, 404}
         /\ (AmountValid(amount) /\ FindOne(accounts, accountId, u)) =>
              resp' = Response(400, "TypeMismatch")]_vars

\* an income on a Category of type expense (or the reverse) was rejected, and the
\* account that could have taken it holds its balance
C18_Witness ==
  /\ resp = Response(400, "TypeMismatch")
  /\ transactions = <<>>
  /\ \E a \in DOMAIN accounts : accounts[a].balance = MaxBalance

\* C19: no step modifies a BorrowingTransaction; a step removes a
\* BorrowingTransaction only when it deletes the Borrowing it refers to; and
\* when a step deletes a Borrowing no BorrowingTransaction refers to it after.
C19_AppendOnlyLedger ==
  [][/\ \A t \in DOMAIN borrowingTransactions :
          IF t \in DOMAIN borrowingTransactions'
            THEN borrowingTransactions'[t] = borrowingTransactions[t]
            ELSE /\ borrowingTransactions[t].borrowingId \in DOMAIN borrowings
                 /\ borrowingTransactions[t].borrowingId \notin DOMAIN borrowings'
     /\ \A b \in DOMAIN borrowings \ DOMAIN borrowings' :
          \A t \in DOMAIN borrowingTransactions' :
            borrowingTransactions'[t].borrowingId # b]_vars

\* C20: every Transaction refers to an Account that exists, so none refers to
\* a deleted one; the step that deletes an Account removes exactly the
\* Transactions that refer to it and leaves the others as they were.
C20_AccountCascade ==
  /\ [](\A t \in DOMAIN transactions : transactions[t].accountId \in DOMAIN accounts)
  /\ [][\A a \in DOMAIN accounts \ DOMAIN accounts' :
          \A t \in DOMAIN transactions :
            IF transactions[t].accountId = a
              THEN t \notin DOMAIN transactions'
              ELSE /\ t \in DOMAIN transactions'
                   /\ transactions'[t] = transactions[t]]_vars

\* of two Transactions made by mark-paid on two accounts, the one of the
\* deleted account is gone and the one of the other account is there
C20_Witness ==
  /\ ledger = "allocations"
  /\ resp = Response(200, "OK")
  /\ nextId.transaction = 3
  /\ Cardinality(DOMAIN accounts) = 1
  /\ Cardinality(DOMAIN transactions) = 1
  /\ \A t \in DOMAIN transactions : transactions[t].accountId \in DOMAIN accounts
\* ------------------------------------------------------------ authentication
\* The routes of /api/auth on the User collection.  A JSON Web Token is its
\* payload (only the server signs, so every token a request carries is one a
\* route issued); a reset token is the number crypto.randomBytes drew.
\* history holds the tokens issued: jwts, the jwts issued before a later
\* password change of their user (stale), and for each reset token its user,
\* its instant of issue and whether a reset used it.
Emails == {"a@finzen.app", "b@finzen.app"}
\* the third email is registered by no user
EmailInputs == Emails \cup {"c@finzen.app"}
Passwords == {"secret1", "secret2"}
\* "short" is the password the validators reject (isLength({ min: 6 }))
PasswordInputs == Passwords \cup {"short"}
NodeEnvs == {"development", "production"}
\* A behaviour runs login, the profile and one of the two routes that change a
\* password.  The two routes meet in the password and passwordChangedAt of a
\* user only, and each of them alone sets both to every value.
PasswordRoutes == {"change-password", "reset-password"}
\* the reset tokens crypto.randomBytes draws in one behaviour, in this order
ResetTokenPool == {1, 2}
\* the instants of Date.now() a behaviour passes through, in milliseconds: two
\* instants of one second, the second after, one hour after each of the first
\* two, and seven days after the first
Instants == {1000, 1001, 2000, 3601000, 3601001, 604801000}
\* the JSON Web Tokens issued in one behaviour
MaxJwts == 2

\* a Date field that is undefined
NoDate == 0 - 1
\* the digest of crypto.createHash('sha256')
Sha256(token) == [sha256 |-> token]
\* passwordResetToken undefined
NoToken == Sha256(0)
\* the hash bcrypt stores, and bcrypt.compare against it
Bcrypt(password) == [bcrypt |-> password]
ComparePassword(user, candidatePassword) == user.password = Bcrypt(candidatePassword)
PasswordValid(password) == Len(password) >= 6

NoData == [none |-> TRUE]
AuthResponse(status, kind, data) == [status |-> status, kind |-> kind, data |-> data]

\* JWT_EXPIRE '7d', in seconds
JwtExpire == 7 * 24 * 60 * 60
\* the NumericDate of jsonwebtoken: Math.floor(milliseconds / 1000)
Seconds(at) == at \div 1000
GenerateToken(userId, email, at) ==
  [userId |-> userId, email |-> email, iat |-> Seconds(at),
   exp |-> Seconds(at) + JwtExpire]
\* jwt.verify throws when the clock has reached exp
VerifyToken(jwt, at) == Seconds(at) < jwt.exp

ChangedPasswordAfter(user, JWTTimestamp) ==
  IF user.passwordChangedAt # NoDate
  THEN JWTTimestamp < Seconds(user.passwordChangedAt)
  ELSE FALSE

\* the authenticate middleware on the User collection coll at the instant at:
\* "next" or the message of its 401
Authenticate(jwt, coll, at) ==
  IF ~VerifyToken(jwt, at) THEN "Invalid or expired token."
  ELSE IF jwt.userId \notin DOMAIN coll THEN "User no longer exists."
  ELSE IF jwt.iat # 0 /\ ChangedPasswordAfter(coll[jwt.userId], jwt.iat)
       THEN "Password was recently changed. Please login again."
       ELSE "next"

\* this.passwordResetToken and this.passwordResetExpires of the method
CreatePasswordResetToken(user, resetToken, at) ==
  [user EXCEPT !.passwordResetToken = Sha256(resetToken),
               !.passwordResetExpires = at + 60 * 60 * 1000]

\* pre('save') of a stored user whose password was assigned
PreSavePassword(user, password, at) ==
  [user EXCEPT !.password = Bcrypt(password), !.passwordChangedAt = at]

\* User.findOne({ email })
FindByEmail(email) == {u \in DOMAIN users : users[u].email = email}

\* the query of reset-password with the expiry left out
ResetTokenMatchMutant(user, hashedToken, at) == user.passwordResetToken = hashedToken
\* the query of reset-password: the stored hash, not expired
ResetTokenMatch(user, hashedToken, at) ==
  /\ user.passwordResetToken = hashedToken
  /\ user.passwordResetExpires > at

GenericForgotResponse ==
  AuthResponse(200, "If that email exists, a password reset link has been sent.", NoData)
\* the response of development mode whatever NODE_ENV is
ForgotPasswordResponseMutant(env, resetToken) ==
  AuthResponse(200, "Password reset token generated (dev mode only)",
               [resetToken |-> resetToken])
\* the response of forgot-password for a user that was found
ForgotPasswordResponse(env, resetToken) ==
  IF env = "development"
  THEN AuthResponse(200, "Password reset token generated (dev mode only)",
                    [resetToken |-> resetToken])
  ELSE GenericForgotResponse

\* a route issued jwt: the tokens of userId issued so far become stale when
\* changed, and jwt is among the tokens issued
Issued(jwt, changed) ==
  history' = [history EXCEPT
                !.stale = IF changed
                          THEN @ \cup {j \in history.jwts : j.userId = jwt.userId}
                          ELSE @,
                !.jwts = @ \cup {jwt}]

\* POST /api/auth/login
Login(email, password) ==
  LET found == FindByEmail(email)
  IN  /\ IF found = {}
         THEN /\ resp' = AuthResponse(401, "Invalid email or password", NoData)
              /\ UNCHANGED history
         ELSE LET u == CHOOSE u \in found : TRUE
              IN  IF ~ComparePassword(users[u], password)
                  THEN /\ resp' = AuthResponse(401, "Invalid email or password", NoData)
                       /\ UNCHANGED history
                  ELSE LET token == GenerateToken(u, users[u].email, clock)
                       IN  /\ resp' = AuthResponse(200, "Login successful",
                                                   [token |-> token])
                           /\ Issued(token, FALSE)
      /\ UNCHANGED <<db, nextId, ledger, numbers, requests, auth>>

\* GET /api/auth/profile behind the authenticate middleware
GetProfile(jwt) ==
  LET answer == Authenticate(jwt, users, clock)
  IN  /\ IF answer # "next"
         THEN resp' = AuthResponse(401, answer, NoData)
         ELSE resp' = AuthResponse(200, "Profile", NoData)
      /\ UNCHANGED <<db, nextId, history, ledger, numbers, requests, auth>>

\* POST /api/auth/forgot-password
ForgotPassword(email) ==
  LET found == FindByEmail(email)
  IN  /\ IF found = {}
         THEN /\ resp' = GenericForgotResponse
              /\ UNCHANGED <<users, nextId, history>>
         ELSE LET u == CHOOSE u \in found : TRUE
                  resetToken == nextId.resetToken
              IN  /\ users' = [users EXCEPT
                                 ![u] = CreatePasswordResetToken(@, resetToken, clock)]
                  /\ nextId' = [nextId EXCEPT !.resetToken = @ + 1]
                  /\ history' = [history EXCEPT
                                   !.resetTokens =
                                     Append(@, [userId |-> u, issuedAt |-> clock,
                                                used |-> FALSE])]
                  /\ resp' = ForgotPasswordResponse(nodeEnv, resetToken)
      /\ UNCHANGED <<db, ledger, numbers, requests, clock, nodeEnv>>

\* POST /api/auth/reset-password
ResetPassword(token, password, confirmPassword) ==
  LET hashedToken == Sha256(token)
      found == {u \in DOMAIN users : ResetTokenMatch(users[u], hashedToken, clock)}
  IN  /\ IF ~PasswordValid(password) \/ confirmPassword # password
         THEN /\ resp' = AuthResponse(400, "Validation failed", NoData)
              /\ UNCHANGED <<users, history>>
         ELSE IF found = {}
         THEN /\ resp' = AuthResponse(400, "Invalid or expired reset token", NoData)
              /\ UNCHANGED <<users, history>>
         ELSE LET u == CHOOSE u \in found : TRUE
                  jwtToken == GenerateToken(u, users[u].email, clock)
              IN  /\ users' = [users EXCEPT
                                 ![u] = [PreSavePassword(@, password, clock) EXCEPT
                                           !.passwordResetToken = NoToken,
                                           !.passwordResetExpires = NoDate]]
                  /\ resp' = AuthResponse(200, "Password has been reset successfully",
                                          [token |-> jwtToken])
                  /\ history' = [history EXCEPT
                                   !.stale = @ \cup {j \in history.jwts : j.userId = u},
                                   !.jwts = @ \cup {jwtToken},
                                   !.resetTokens[token].used = TRUE]
      /\ UNCHANGED <<db, nextId, ledger, numbers, requests, clock, nodeEnv>>

\* POST /api/auth/change-password behind the authenticate middleware
ChangePassword(jwt, currentPassword, newPassword, confirmPassword) ==
  LET answer == Authenticate(jwt, users, clock)
      user == users[jwt.userId]
  IN  /\ IF answer # "next"
         THEN /\ resp' = AuthResponse(401, answer, NoData)
              /\ UNCHANGED <<users, history>>
         ELSE IF ~PasswordValid(newPassword) \/ confirmPassword # newPassword
         THEN /\ resp' = AuthResponse(400, "Validation failed", NoData)
              /\ UNCHANGED <<users, history>>
         ELSE IF ~ComparePassword(user, currentPassword)
         THEN /\ resp' = AuthResponse(401, "Current password is incorrect", NoData)
              /\ UNCHANGED <<users, history>>
         ELSE IF ComparePassword(user, newPassword)
         THEN /\ resp' = AuthResponse(400, "New password must be different from current password",
                                      NoData)
              /\ UNCHANGED <<users, history>>
         ELSE LET jwtToken == GenerateToken(jwt.userId, user.email, clock)
              IN  /\ users' = [users EXCEPT
                                 ![jwt.userId] = PreSavePassword(@, newPassword, clock)]
                  /\ resp' = AuthResponse(200, "Password has been changed successfully",
                                          [token |-> jwtToken])
                  /\ Issued(jwtToken, TRUE)
      /\ UNCHANGED <<db, nextId, ledger, numbers, requests, clock, nodeEnv>>

\* time passes between two requests
Tick(at) ==
  /\ at > clock
  /\ clock' = at
  /\ UNCHANGED <<db, nextId, resp, history, ledger, numbers, requests, users, nodeEnv>>

\* the reset tokens a request may carry: those issued and one never issued
ResetTokenInputs == 1..nextId.resetToken

\* two users as POST /api/auth/register leaves them, and NODE_ENV as deployed
AuthInit ==
  /\ accounts = <<>>
  /\ categories = <<>>
  /\ transactions = <<>>
  /\ allocations = <<>>
  /\ borrowings = <<>>
  /\ borrowingTransactions = <<>>
  /\ nextId = [resetToken |-> 1]
  /\ resp = AuthResponse(0, "none", NoData)
  /\ history = [jwts |-> {}, stale |-> {}, resetTokens |-> <<>>]
  /\ ledger \in PasswordRoutes
  /\ numbers = "integer"
  /\ requests = <<>>
  /\ users = [u \in {"u1", "u2"} |->
                [email |-> IF u = "u1" THEN "a@finzen.app" ELSE "b@finzen.app",
                 password |-> Bcrypt("secret1"),
                 passwordChangedAt |-> NoDate,
                 passwordResetToken |-> NoToken,
                 passwordResetExpires |-> NoDate]]
  /\ clock = 1000
  /\ nodeEnv \in NodeEnvs

AuthNext ==
  \/ \E email \in EmailInputs, password \in Passwords :
       Cardinality(history.jwts) < MaxJwts /\ Login(email, password)
  \/ \E jwt \in history.jwts : GetProfile(jwt)
  \/ \E email \in EmailInputs :
       ledger = "reset-password" /\ nextId.resetToken \in ResetTokenPool
       /\ ForgotPassword(email)
  \/ \E token \in ResetTokenInputs, password \in PasswordInputs,
        confirmPassword \in PasswordInputs :
       ledger = "reset-password" /\ Cardinality(history.jwts) < MaxJwts
       /\ ResetPassword(token, password, confirmPassword)
  \/ \E jwt \in history.jwts, currentPassword \in Passwords,
        newPassword \in PasswordInputs, confirmPassword \in PasswordInputs :
       ledger = "change-password" /\ Cardinality(history.jwts) < MaxJwts
       /\ ChangePassword(jwt, currentPassword, newPassword, confirmPassword)
  \/ \E at \in Instants : Tick(at)

AuthSpec == AuthInit /\ [][AuthNext]_vars

\* ----------------------------------------------------------------- C21
\* the jwts issued to a user before a later change of the user's password are
\* rejected by the authenticate middleware
C21_OldTokensRejected ==
  \A j \in history.stale : Authenticate(j, users, clock) # "next"

\* the token in the response of change-password or reset-password passes the
\* authenticate middleware until it expires
C21_OwnTokenAccepted ==
  resp.kind \in {"Password has been changed successfully",
                 "Password has been reset successfully"}
    => Authenticate(resp.data.token, users, clock)
         \in {"next", "Invalid or expired token."}

\* C21: after a change of a user's password by change-password or
\* reset-password, the authenticate middleware rejects every JSON Web Token
\* issued to that user before the change, and accepts the token the change
\* returned.
C21_PasswordChangeInvalidates == C21_OldTokensRejected /\ C21_OwnTokenAccepted

\* ----------------------------------------------------------------- C22
\* token is the reset token issued last to its user
LatestResetToken(token) ==
  \A t \in DOMAIN history.resetTokens :
    history.resetTokens[t].userId = history.resetTokens[token].userId => t <= token
\* token was issued one hour ago or earlier
ResetTokenExpired(token) == clock - history.resetTokens[token].issuedAt >= 60 * 60 * 1000

\* C22: reset-password accepts a token only if it is the reset token issued
\* last to some user, was issued less than one hour ago and no successful reset
\* has used it; a request with a valid new password whose token was already used
\* or has expired is answered 400 "Invalid or expired reset token" and leaves
\* every user, the password included, unchanged.
C22_ResetTokenOnce ==
  [][\A token \in ResetTokenInputs, password \in PasswordInputs,
        confirmPassword \in PasswordInputs :
       ResetPassword(token, password, confirmPassword) =>
         /\ resp'.status = 200 =>
              /\ token \in DOMAIN history.resetTokens
              /\ LatestResetToken(token)
              /\ ~ResetTokenExpired(token)
              /\ ~history.resetTokens[token].used
              /\ users'[history.resetTokens[token].userId].password = Bcrypt(password)
         /\ ( /\ PasswordValid(password)
              /\ confirmPassword = password
              /\ token \in DOMAIN history.resetTokens
              /\ (history.resetTokens[token].used \/ ResetTokenExpired(token)) ) =>
              /\ resp' = AuthResponse(400, "Invalid or expired reset token", NoData)
              /\ users' = users]_vars

\* a reset used a token, another token has expired unused, and the last request
\* was rejected for its token
C22_Witness ==
  /\ resp.kind = "Invalid or expired reset token"
  /\ \E t \in DOMAIN history.resetTokens : history.resetTokens[t].used
  /\ \E t \in DOMAIN history.resetTokens :
       ~history.resetTokens[t].used /\ ResetTokenExpired(t)

\* ----------------------------------------------------------------- C23
\* C23 as stated: for every email of a request the response of forgot-password
\* is the one response that reports success, whether or not a user has the
\* email.
C23_ForgotSameResponse ==
  [][\A email \in EmailInputs :
       ForgotPassword(email) => resp' = GenericForgotResponse]_vars

\* C23 as the code has it: unless NODE_ENV is development, for every email of a
\* request the response of forgot-password is the one response that reports
\* success, whether or not a user has the email; every response of the route
\* has status 200.
C23_ForgotSameInProduction ==
  [][\A email \in EmailInputs :
       ForgotPassword(email) =>
         /\ resp'.status = 200
         /\ nodeEnv # "development" => resp' = GenericForgotResponse]_vars

\* outside development mode a reset token was stored for a user and the
\* response is the one an unknown email gets
C23_Witness ==
  /\ nodeEnv = "production"
  /\ resp = GenericForgotResponse
  /\ \E u \in DOMAIN users : users[u].passwordResetToken = Sha256(nextId.resetToken - 1)
  /\ nextId.resetToken = 2


\* ----------------------------------------------------------------- C24
\* the sum of the balance changes of the Transactions ids on account a
RECURSIVE SumOfEffects(_, _)
SumOfEffects(ids, a) ==
  IF ids = {}
  THEN Zero
  ELSE LET t == CHOOSE t \in ids : TRUE
       IN  Plus(IF transactions[t].accountId = a
                THEN AmountChange(transactions[t].type, transactions[t].amount)
                ELSE Zero,
                SumOfEffects(ids \ {t}, a))

\* C24: in every state another request can observe, the states between the
\* awaited database calls of a POST /api/transactions included, the balance of
\* each Account holds the effect of every persisted Transaction on it: it is the
\* balance at the start plus the changes of the Transactions stored.
C24_EffectsInBalance ==
  \A a \in DOMAIN accounts :
    accounts[a].balance = Plus(history.start[a], SumOfEffects(DOMAIN transactions, a))


\* ----------------------------------------------------------------- C25
\* C25: a DELETE of a Borrowing either removes the Borrowing and every
\* BorrowingTransaction that refers to it and reverses the creation on the
\* initial account, or, when a step of it fails, changes nothing: the
\* Borrowing, its BorrowingTransactions and every balance are as before.
C25_DeleteAllOrNothing ==
  [][\A u \in Users, id \in DOMAIN borrowings :
       DeleteBorrowing(u, id) =>
         LET borrowing == borrowings[id]
             accountId == borrowing.initialAccountId
         IN  \/ /\ resp'.status = 200
                /\ id \notin DOMAIN borrowings'
                /\ \A t \in DOMAIN borrowingTransactions' :
                     borrowingTransactions'[t].borrowingId # id
                /\ accountId \in DOMAIN accounts =>
                     accounts'[accountId].balance =
                       BorrowingDeleteBalance(accounts[accountId].balance,
                                              borrowing.type, borrowing.totalAmount)
             \/ /\ resp'.status # 200
                /\ db' = db]_vars


\* ----------------------------------------------------------------- C26
\* C26: a mark-paid of a month that has an entry puts, at the position of that
\* entry, an entry with paid true and the account of the request, and leaves the
\* number, the order and the other entries of monthlyPayments as they were; a
\* mark-paid of a month without an entry appends exactly one such entry at the
\* end; a rejected mark-paid writes nothing; every entry has paid true.
C26_MarkPaidEntry ==
  /\ [](\A id \in DOMAIN allocations :
          \A i \in 1..Len(allocations[id].monthlyPayments) :
            allocations[id].monthlyPayments[i].paid)
  /\ [][\A u \in Users, id \in DOMAIN allocations, accountId \in AccountIds,
           month \in Months :
          MarkPaid(u, id, accountId, month) =>
            LET before == allocations[id].monthlyPayments
                after == allocations'[id].monthlyPayments
                entry == [month |-> month, accountId |-> accountId, paid |-> TRUE]
            IN  \/ /\ resp'.status # 200
                   /\ after = before
                \/ /\ EntriesOf(before, month) # {}
                   /\ Len(after) = Len(before)
                   /\ \A i \in 1..Len(before) :
                        after[i] = IF before[i].month = month THEN entry ELSE before[i]
                \/ /\ EntriesOf(before, month) = {}
                   /\ after = Append(before, entry)]_vars

\* one mark-paid was made on an Allocation of two months marked on account 1:
\* the first entry now names account 2 and the second entry is as it was
C26_Witness ==
  /\ resp = Response(200, "OK")
  /\ Cardinality(DOMAIN transactions) = 1
  /\ \E id \in DOMAIN allocations :
       allocations[id].monthlyPayments
         = <<[month |-> "2025-01", accountId |-> 2, paid |-> TRUE],
             [month |-> "2025-02", accountId |-> 1, paid |-> TRUE]>>


\* ----------------------------------------------------------------- C27
\* the sum of the amounts of the BorrowingTransactions ids that refer to b
RECURSIVE SumOfPayments(_, _)
SumOfPayments(ids, b) ==
  IF ids = {}
  THEN Zero
  ELSE LET t == CHOOSE t \in ids : TRUE
       IN  Plus(IF borrowingTransactions[t].borrowingId = b
                THEN borrowingTransactions[t].amount
                ELSE Zero,
                SumOfPayments(ids \ {t}, b))

\* C27: in every state in which no pay request is in flight, also after pays
\* that ran at the same time, the paidAmount of every Borrowing is the sum of
\* the amounts of the BorrowingTransactions that refer to it.
C27_PaidIsSumOfPayments ==
  (\A s \in DOMAIN requests : requests[s].pc = "idle")
  => \A b \in DOMAIN borrowings :
       borrowings[b].paidAmount = SumOfPayments(DOMAIN borrowingTransactions, b)


\* ----------------------------------------------------------------- C28
\* C28: every Borrowing has 0 <= paidAmount <= totalAmount.
C28_PaidWithinTotal ==
  \A b \in DOMAIN borrowings :
    /\ ~Less(borrowings[b].paidAmount, Zero)
    /\ ~Less(borrowings[b].totalAmount, borrowings[b].paidAmount)


\* ----------------------------------------------------------------- C29
\* C29: every Transaction refers to a Category that exists, belongs to the
\* user of the Transaction and has the type of the Transaction, also after the
\* Category was updated or deleted.
C29_TransactionCategory ==
  \A t \in DOMAIN transactions :
    /\ transactions[t].categoryId \in DOMAIN categories
    /\ categories[transactions[t].categoryId].userId = transactions[t].userId
    /\ categories[transactions[t].categoryId].type = transactions[t].type


\* ----------------------------------------------------------------- C30
\* C30: the initialAccountId of every Borrowing that has one, the accountId of
\* every BorrowingTransaction and the accountId of every entry of
\* monthlyPayments name an Account that exists, so the DELETE of a Borrowing
\* finds the initial account.
C30_AccountReferences ==
  /\ \A b \in DOMAIN borrowings :
       borrowings[b].initialAccountId # NoAccount
         => borrowings[b].initialAccountId \in DOMAIN accounts
  /\ \A t \in DOMAIN borrowingTransactions :
       borrowingTransactions[t].accountId \in DOMAIN accounts
  /\ \A id \in DOMAIN allocations :
       \A i \in 1..Len(allocations[id].monthlyPayments) :
         allocations[id].monthlyPayments[i].accountId \in DOMAIN accounts

====
